---- MODULE Spec2Model ----
(***************************************************************************)
(* A model of the bakht script compiler and virtual machine                *)
(* (src/src/compiler.rs, src/src/vm.rs, src/src/scanner.rs,                *)
(* src/src/text.rs).                                                       *)
(*                                                                         *)
(* Conventions.                                                            *)
(*  - Rust vectors are 0-indexed, TLA+ sequences 1-indexed: v[i] in the    *)
(*    source is v[i + 1] here.                                             *)
(*  - A usize that may exceed 31 bits (an instruction operand) is a Word:  *)
(*    its eight bytes, least significant first.  Shifts and masks are      *)
(*    computed on the bytes, so the 64-bit width is kept.                  *)
(*  - An f32 is the fraction n/d it stands for, in lowest terms (d > 0);   *)
(*    the numbers of the model are ones f32 arithmetic is exact on.        *)
(*  - A panic (unwrap of None, index out of range, RefCell double borrow,  *)
(*    panic!()) and a process exit are recorded in the field `halt`.       *)
(***************************************************************************)
EXTENDS Integers, Sequences, FiniteSets, TLC

VARIABLES vm, procs, last, prog, calls, emitted, fetched, src, comp

vars == <<vm, procs, last, prog, calls, emitted, fetched, src, comp>>

\* ------------------------------------------------------------------ bounds

\* Instructions emitted in one run of the encoder specification.
MaxEmit == 2

\* Arguments the host pushes above the callee.
MaxArgs == 3

\* ------------------------------------------------------------- bytes, words

Byte == 0..255

RECURSIVE BitAndN(_, _, _)
\* a & b on the low n bits.
BitAndN(a, b, n) ==
    IF n = 0 THEN 0
    ELSE 2 * BitAndN(a \div 2, b \div 2, n - 1) + (IF a % 2 = 1 /\ b % 2 = 1 THEN 1 ELSE 0)

RECURSIVE BitOrN(_, _, _)
\* a | b on the low n bits.
BitOrN(a, b, n) ==
    IF n = 0 THEN 0
    ELSE 2 * BitOrN(a \div 2, b \div 2, n - 1) + (IF a % 2 = 1 \/ b % 2 = 1 THEN 1 ELSE 0)

\* u8 & u8, u8 | u8, u8 >> k, 1 << k
And8(a, b) == BitAndN(a, b, 8)
Or8(a, b) == BitOrN(a, b, 8)
Shr8(a, k) == a \div (2 ^ k)
Shl1(k) == 2 ^ k

\* A usize: eight bytes, least significant first.
WordZero == <<0, 0, 0, 0, 0, 0, 0, 0>>

\* The usize of a small natural (n < 2^31).
Word(n) == [i \in 1..8 |-> IF i <= 4 THEN (n \div (256 ^ (i - 1))) % 256 ELSE 0]

\* The natural of a usize below 2^24 (every operand a program of the model runs).
WordToNat(w) == w[1] + 256 * w[2] + 65536 * w[3]

\* o & 0xff
WordLow(w) == w[1]

\* o >> 8
WordShr8(w) == [i \in 1..8 |-> IF i < 8 THEN w[i + 1] ELSE 0]

\* o << 8 (the top byte is shifted out)
WordShl8(w) == [i \in 1..8 |-> IF i = 1 THEN 0 ELSE w[i - 1]]

\* o + b for a word whose low byte is 0
WordAddByte(w, b) == [w EXCEPT ![1] = (w[1] + b) % 256]

\* o > 0xffffffff, o > 0xffff, o > 0xff
WordGtU32(w) == \E i \in 5..8 : w[i] # 0
WordGtU16(w) == \E i \in 3..8 : w[i] # 0
WordGtU8(w) == \E i \in 2..8 : w[i] # 0

\* ---------------------------------------------------------------- opcodes

IADD == 0
ISUB == 1
IMULT == 2
IDIV == 3
IEQ == 4
INE == 5
IGE == 6
ILE == 7
IGT == 8
ILT == 9
ISET == 10
IGET == 11
IPOP == 44
IRET == 13
ILOAD == 46
ISTORE == 47
ICALL == 48
IKONST == 49
INIL == 18
ITRUE == 19
IFALSE == 20
IANEW == 53
IMOD == 22

\* fetch's masks: the has-operand bit, the size tag, and the mask applied to the
\* opcode (the literal 0b_0011_11111 has nine digits: its value is 127).
HasOperandBit == 32
SizeTagMask == 192
OpcodeMask == 127

\* encode's size tags 0b_0100_0000, 0b_1000_0000, 0b_1100_0000
Tag2 == 64
Tag4 == 128
Tag8 == 192

NoOperand == <<>>

\* enum Instruction: the opcode, and the operand (a Word) or NoOperand.
Ins(op, arg) == [op |-> op, arg |-> arg]
I0(op) == Ins(op, NoOperand)
I1(op, n) == Ins(op, Word(n))

OperandOps == {IPOP, ILOAD, ISTORE, ICALL, IKONST, IANEW}
PlainOps == {IADD, ISUB, IMULT, IDIV, IEQ, INE, IGE, ILE, IGT, ILT, ISET, IGET,
             IRET, INIL, ITRUE, IFALSE, IMOD}

\* Instruction::encode_params: (opcode, Some(operand) | None)
encode_params(ins) == <<ins.op, ins.arg>>

\* ----------------------------------------------------------------- values

Nil == [t |-> "Nil"]
Boolean(b) == [t |-> "Boolean", b |-> b]
Number(n, d) == [t |-> "Number", n |-> n, d |-> d]
Num(n) == Number(n, 1)
String(s) == [t |-> "String", s |-> s]
ArrayRef(r) == [t |-> "Array", ref |-> r]
Bakht(param_count, address) ==
    [t |-> "Function", k |-> "Bakht", param_count |-> param_count, address |-> address]
Native(param_count, func) ==
    [t |-> "Function", k |-> "Native", param_count |-> param_count, func |-> func]

None == [t |-> "None"]

\* struct Frame
Frame(ip, bp) == [ip |-> ip, bp |-> bp]

\* BVM::init applied to the empty struct: impl Default for BVM.  `heap` holds the
\* contents of every Arc<Array> allocated so far (ArrayRef(r) is heap[r]); `halt`
\* records a panic of the thread.
BVM_default ==
    [stack |-> <<>>, bin |-> <<>>, constants |-> <<>>, frames |-> <<Frame(0, 0)>>,
     entry |-> 0, error |-> "None", heap |-> <<>>, halt |-> "none"]

Panic(m) == [m EXCEPT !.halt = "panic"]

\* ------------------------------------------------------------- the encoder

\* The bytes bytes[1..n] of Compiler::encode's loops: o & 0xff, then o >>= 8.
RECURSIVE OperandBytes(_, _)
OperandBytes(o, n) ==
    IF n = 0 THEN <<>> ELSE <<WordLow(o)>> \o OperandBytes(WordShr8(o), n - 1)

\* An encode that gives every instruction an operand byte.
encodePadded(instruction) ==
    LET i == encode_params(instruction)
        opcode == i[1]
        operand == i[2]
    IN  IF operand = NoOperand THEN <<opcode, 0>>
        ELSE IF WordGtU32(operand) THEN <<Or8(opcode, Tag8)>> \o OperandBytes(operand, 8)
        ELSE IF WordGtU16(operand) THEN <<Or8(opcode, Tag4)>> \o OperandBytes(operand, 4)
        ELSE IF WordGtU8(operand) THEN <<Or8(opcode, Tag2)>> \o OperandBytes(operand, 2)
        ELSE <<opcode, WordLow(operand)>>

\* Compiler::encode: the bytes bytecode.bytes[0 .. bytecode.len].
encode(instruction) ==
    LET i == encode_params(instruction)
        opcode == i[1]
        operand == i[2]
    IN  IF operand = NoOperand THEN <<opcode>>
        ELSE IF WordGtU32(operand) THEN <<Or8(opcode, Tag8)>> \o OperandBytes(operand, 8)
        ELSE IF WordGtU16(operand) THEN <<Or8(opcode, Tag4)>> \o OperandBytes(operand, 4)
        ELSE IF WordGtU8(operand) THEN <<Or8(opcode, Tag2)>> \o OperandBytes(operand, 2)
        ELSE <<opcode, WordLow(operand)>>

\* VM::emit for BVM: push one byte on bin.
vm_emit(m, bytecode) == [m EXCEPT !.bin = Append(@, bytecode)]

RECURSIVE EmitBytes(_, _)
EmitBytes(m, bytes) ==
    IF m.halt # "none" \/ bytes = <<>> THEN m
    ELSE EmitBytes(vm_emit(m, Head(bytes)), Tail(bytes))

\* Compiler::emit: encode, then emit every byte.
emit(m, instruction) == EmitBytes(m, encode(instruction))

\* ------------------------------------------------------------- the decoder

ip(m) == m.frames[Len(m.frames)].ip
bp(m) == m.frames[Len(m.frames)].bp
sp(m) == Len(m.stack)

\* BVM::read: <<the VM after the read, the byte>>; bin[ip] out of range panics.
read(m) ==
    IF ip(m) >= Len(m.bin) THEN <<Panic(m), 0>>
    ELSE <<[m EXCEPT !.frames[Len(m.frames)].ip = @ + 1], m.bin[ip(m) + 1]>>

\* The loop of BVM::fetch: operand = operand << 8; operand += read().
RECURSIVE ReadOperand(_, _, _)
ReadOperand(m, operand, count) ==
    IF count = 0 \/ m.halt # "none" THEN <<m, operand>>
    ELSE LET r == read(m)
         IN  ReadOperand(r[1], WordAddByte(WordShl8(operand), r[2]), count - 1)

\* BVM::fetch: <<the VM after the fetch, opcode, operand>>.
fetch(m) ==
    LET r == read(m)
        opcode == r[2]
    IN  IF r[1].halt # "none" THEN <<r[1], 0, WordZero>>
        ELSE IF And8(opcode, HasOperandBit) > 0
        THEN LET operand_count == Shl1(Shr8(And8(opcode, SizeTagMask), 6))
                 o == ReadOperand(r[1], WordZero, operand_count)
             IN  <<o[1], And8(opcode, OpcodeMask), o[2]>>
        ELSE <<r[1], opcode, WordZero>>

\* The record of the instruction the dispatch loop executed last: its opcode and
\* operand as fetched, the VM before its fetch and, for a ret, the stack its call
\* found below the callee.
LastOf(op, arg, pre, base) == [op |-> op, arg |-> arg, pre |-> pre, base |-> base]
NoLast == LastOf(-1, WordZero, BVM_default, <<>>)

\* ------------------------------------------- the encoder/decoder round trip

\* Operands at the edges of the four operand widths.
Pow2_32 == <<0, 0, 0, 0, 1, 0, 0, 0>>
U32Max == <<255, 255, 255, 255, 0, 0, 0, 0>>
EdgeOperands == {Word(0), Word(1), Word(255), Word(256), Word(65535), Word(65536),
                 U32Max, Pow2_32}

EncInstructions ==
    {Ins(op, n) : op \in OperandOps, n \in EdgeOperands} \cup {I0(op) : op \in PlainOps}

InitEnc ==
    /\ vm = BVM_default
    /\ procs = <<>>
    /\ last = NoLast
    /\ prog = "none"
    /\ calls = <<>>
    /\ emitted = <<>>
    /\ fetched = <<>>
    /\ src = <<>>
    /\ comp = None

\* Compiler::emit of one instruction into a VM that has fetched nothing yet.
EncEmit ==
    /\ Len(emitted) < MaxEmit
    /\ fetched = <<>>
    /\ \E i \in EncInstructions :
         /\ vm' = emit(vm, i)
         /\ emitted' = Append(emitted, [ins |-> i, at |-> Len(vm.bin)])
    /\ UNCHANGED <<procs, last, prog, calls, fetched, src, comp>>

\* BVM::fetch at the ip of the current frame.
EncFetch ==
    /\ Len(fetched) < Len(emitted)
    /\ vm.halt = "none"
    /\ LET f == fetch(vm)
       IN  /\ vm' = f[1]
           /\ fetched' = Append(fetched, [op |-> f[2], arg |-> f[3], from |-> ip(vm),
                                          to |-> ip(f[1]), halt |-> f[1].halt])
    /\ UNCHANGED <<procs, last, prog, calls, emitted, src, comp>>

NextEnc == EncEmit \/ EncFetch

SpecEnc == InitEnc /\ [][NextEnc]_vars

\* The length Compiler::encode gives an instruction: 1 without operand, else 1 + width.
EncodedLen(i) ==
    IF i.arg = NoOperand THEN 1
    ELSE IF WordGtU32(i.arg) THEN 9
    ELSE IF WordGtU16(i.arg) THEN 5
    ELSE IF WordGtU8(i.arg) THEN 3
    ELSE 2

\* C1: for every operand-carrying instruction and every edge operand, fetch on the
\* bytes encode emitted yields the same (opcode, operand) and advances ip by the
\* encoded length (1 byte for an instruction without operand).
C1_RoundTrip ==
    \A k \in 1..Len(fetched) :
        LET e == emitted[k]
            f == fetched[k]
        IN  /\ f.halt = "none"
            /\ f.op = e.ins.op
            /\ f.arg = (IF e.ins.arg = NoOperand THEN WordZero ELSE e.ins.arg)
            /\ f.from = e.at
            /\ f.to = e.at + EncodedLen(e.ins)

\* ------------------------------------------------------- numbers, strings

RECURSIVE GCD(_, _)
GCD(a, b) == IF b = 0 THEN a ELSE GCD(b, a % b)

Abs(n) == IF n < 0 THEN -n ELSE n

\* The fraction n/d (d # 0) in lowest terms with a positive denominator.
Frac(n, d) ==
    LET g == GCD(Abs(n), Abs(d))
        sgn == IF d < 0 THEN -1 ELSE 1
    IN  Number((sgn * n) \div g, (sgn * d) \div g)

\* The integer part of n/d, rounded toward zero.
Trunc(n, d) == IF n >= 0 THEN n \div d ELSE -((-n) \div d)

\* f32 + - * / %, on fractions (a % b has the sign of a, as Rust's % on floats)
NumAdd(a, b) == Frac(a.n * b.d + b.n * a.d, a.d * b.d)
NumSub(a, b) == Frac(a.n * b.d - b.n * a.d, a.d * b.d)
NumMul(a, b) == Frac(a.n * b.n, a.d * b.d)
NumDiv(a, b) == Frac(a.n * b.d, a.d * b.n)
NumRem(a, b) ==
    LET q == Trunc(a.n * b.d, a.d * Abs(b.n))
    IN  Frac(a.n * b.d - q * Abs(b.n) * a.d, a.d * b.d)
NumIsZero(b) == b.n = 0
NumGt(a, b) == a.n * b.d > b.n * a.d
NumGe(a, b) == a.n * b.d >= b.n * a.d
NumLt(a, b) == a.n * b.d < b.n * a.d
NumLe(a, b) == a.n * b.d <= b.n * a.d

\* `f as usize`: saturating, rounded toward zero (a negative number gives 0).
AsUsize(v) == IF v.n < 0 THEN 0 ELSE v.n \div v.d

\* The characters of the model, in the order of their code points.
Alphabet ==
    <<"\n", " ", "!", "#", "%", "'", "(", ")", "*", "+", ",", "-", ".", "/",
      "0", "1", "2", "3", "5", "7", "<", "=", ">", "[", "]", "_",
      "a", "b", "d", "e", "f", "h", "i", "l", "m", "n", "r", "s", "t", "u", "w", "x",
      "y",
      "{", "}">>
CharCode(c) == CHOOSE i \in 1..Len(Alphabet) : Alphabet[i] = c

\* String's Ord: lexicographic on the characters, a proper prefix first.
RECURSIVE StrLt(_, _)
StrLt(a, b) ==
    IF b = <<>> THEN FALSE
    ELSE IF a = <<>> THEN TRUE
    ELSE IF Head(a) = Head(b) THEN StrLt(Tail(a), Tail(b))
    ELSE CharCode(Head(a)) < CharCode(Head(b))
StrGt(a, b) == StrLt(b, a)
StrLe(a, b) == ~StrLt(b, a)
StrGe(a, b) == ~StrLt(a, b)

\* --------------------------------------------------------- value equality

RECURSIVE ValueEq(_, _, _)
RECURSIVE ArrayEq(_, _, _)

\* A comparison of the two Arcs themselves (pointer identity).
ArrayEqPtr(heap, l0, r0) == l0 = r0

\* Arc<Array> == Arc<Array>: Array derives PartialEq, so the two RefCell<Vec<Value>>
\* are compared by content, element by element.
ArrayEq(heap, l0, r0) ==
    /\ Len(heap[l0]) = Len(heap[r0])
    /\ \A i \in 1..Len(heap[l0]) : ValueEq(heap, heap[l0][i], heap[r0][i])

\* impl PartialEq for Value
ValueEq(heap, a, b) ==
    IF a.t # b.t THEN FALSE
    ELSE CASE a.t = "String" -> a.s = b.s
           [] a.t = "Nil" -> TRUE
           [] a.t = "Array" -> ArrayEq(heap, a.ref, b.ref)
           [] a.t = "Boolean" -> a.b = b.b
           [] a.t = "Number" -> a.n = b.n /\ a.d = b.d
           [] a.t = "Function" ->
                IF a.k # b.k THEN FALSE
                ELSE IF a.k = "Bakht" THEN a.address = b.address
                ELSE a.func = b.func

\* ------------------------------------------------------- the BVM's handlers

\* BVM::push
push(m, value) == [m EXCEPT !.stack = Append(@, value)]

\* BVM::pop: <<the VM after the pop, the value>>; unwrap of an empty stack panics.
pop(m) ==
    IF m.halt # "none" THEN <<m, Nil>>
    ELSE IF m.stack = <<>> THEN <<Panic(m), Nil>>
    ELSE <<[m EXCEPT !.stack = SubSeq(@, 1, Len(@) - 1)], m.stack[Len(m.stack)]>>

SetError(m, e) == [m EXCEPT !.error = e]

\* BVM::i_load
i_load(m, operand) ==
    LET address == bp(m) + operand
    IN  IF address < 0 \/ address >= sp(m) THEN Panic(m)
        ELSE push(m, m.stack[address + 1])

\* BVM::i_store
i_store(m, operand) ==
    LET p == pop(m)
        address == bp(m) + operand
    IN  IF p[1].halt # "none" THEN p[1]
        ELSE IF address < 0 \/ address >= sp(p[1]) THEN Panic(p[1])
        ELSE [p[1] EXCEPT !.stack[address + 1] = p[2]]

\* BVM::i_konst
i_konst(m, operand) ==
    IF operand >= Len(m.constants) THEN Panic(m)
    ELSE push(m, m.constants[operand + 1])

\* The common start of the binary handlers, `let b = self.pop(); let a = self.pop();`:
\* <<the VM after the two pops, a, b>>.
Operands(m) ==
    LET pb == pop(m)
        pa == pop(pb[1])
    IN  <<pa[1], pa[2], pb[2]>>

BothNumbers(a, b) == a.t = "Number" /\ b.t = "Number"
BothStrings(a, b) == a.t = "String" /\ b.t = "String"

\* BVM::i_add, i_sub, i_mult
i_add(m) ==
    LET o == Operands(m)
        s == o[1]
        a == o[2]
        b == o[3]
    IN  IF s.halt # "none" THEN s
        ELSE IF BothNumbers(a, b) THEN push(s, NumAdd(a, b)) ELSE SetError(s, "InvalidOperands")
i_sub(m) ==
    LET o == Operands(m)
        s == o[1]
        a == o[2]
        b == o[3]
    IN  IF s.halt # "none" THEN s
        ELSE IF BothNumbers(a, b) THEN push(s, NumSub(a, b)) ELSE SetError(s, "InvalidOperands")
i_mult(m) ==
    LET o == Operands(m)
        s == o[1]
        a == o[2]
        b == o[3]
    IN  IF s.halt # "none" THEN s
        ELSE IF BothNumbers(a, b) THEN push(s, NumMul(a, b)) ELSE SetError(s, "InvalidOperands")

\* BVM::i_div, i_mod
\* i_div without its test of the divisor: f32 division, which gives an infinity.
i_divUnchecked(m) ==
    LET o == Operands(m)
        s == o[1]
        a == o[2]
        b == o[3]
    IN  IF s.halt # "none" THEN s
        ELSE IF BothNumbers(a, b)
             THEN IF NumIsZero(b) THEN push(s, [t |-> "Number", n |-> 1, d |-> 0])
                  ELSE push(s, NumDiv(a, b))
             ELSE SetError(s, "InvalidOperands")
i_div(m) ==
    LET o == Operands(m)
        s == o[1]
        a == o[2]
        b == o[3]
    IN  IF s.halt # "none" THEN s
        ELSE IF BothNumbers(a, b)
             THEN IF NumIsZero(b) THEN SetError(s, "DivisionByZero") ELSE push(s, NumDiv(a, b))
             ELSE SetError(s, "InvalidOperands")
i_mod(m) ==
    LET o == Operands(m)
        s == o[1]
        a == o[2]
        b == o[3]
    IN  IF s.halt # "none" THEN s
        ELSE IF BothNumbers(a, b)
             THEN IF NumIsZero(b) THEN SetError(s, "DivisionByZero") ELSE push(s, NumRem(a, b))
             ELSE SetError(s, "InvalidOperands")

\* BVM::i_true, i_false, i_nil
i_true(m) == push(m, Boolean(TRUE))
i_false(m) == push(m, Boolean(FALSE))
i_nil(m) == push(m, Nil)

\* The loop of BVM::i_anew: <<the VM, the popped values in pop order>>.
RECURSIVE PopN(_, _, _)
PopN(m, count, elements) ==
    IF count = 0 \/ m.halt # "none" THEN <<m, elements>>
    ELSE LET p == pop(m) IN PopN(p[1], count - 1, Append(elements, p[2]))

\* Vec::reverse
RECURSIVE Reverse(_)
Reverse(s) == IF s = <<>> THEN <<>> ELSE Append(Reverse(Tail(s)), Head(s))

\* Array::new behind a fresh Arc: <<the VM, the new Value::Array>>.
NewArray(m, elements) ==
    <<[m EXCEPT !.heap = Append(@, elements)], ArrayRef(Len(m.heap) + 1)>>

\* i_anew without `elements.reverse()`.
i_anewPopOrder(m, count) ==
    LET p == PopN(m, count, <<>>)
        a == NewArray(p[1], p[2])
    IN  IF p[1].halt # "none" THEN p[1] ELSE push(a[1], a[2])

\* BVM::i_anew
i_anew(m, count) ==
    LET p == PopN(m, count, <<>>)
        a == NewArray(p[1], Reverse(p[2]))
    IN  IF p[1].halt # "none" THEN p[1] ELSE push(a[1], a[2])

\* BVM::i_eq, i_ne
i_eq(m) ==
    LET o == Operands(m)
        s == o[1]
        a == o[2]
        b == o[3]
    IN  IF s.halt # "none" THEN s
        ELSE push(s, Boolean(ValueEq(s.heap, a, b)))
i_ne(m) ==
    LET o == Operands(m)
        s == o[1]
        a == o[2]
        b == o[3]
    IN  IF s.halt # "none" THEN s
        ELSE push(s, Boolean(~ValueEq(s.heap, a, b)))

\* BVM::i_gt, i_lt, i_ge, i_le.  The source's i_lt compares with l0 > r0, as i_gt.
i_gt(m) ==
    LET o == Operands(m)
        s == o[1]
        a == o[2]
        b == o[3]
    IN  IF s.halt # "none" THEN s
        ELSE IF BothNumbers(a, b) THEN push(s, Boolean(NumGt(a, b)))
             ELSE IF BothStrings(a, b) THEN push(s, Boolean(StrGt(a.s, b.s)))
             ELSE SetError(s, "InvalidOperands")
i_lt(m) ==
    LET o == Operands(m)
        s == o[1]
        a == o[2]
        b == o[3]
    IN  IF s.halt # "none" THEN s
        ELSE IF BothNumbers(a, b) THEN push(s, Boolean(NumGt(a, b)))
             ELSE IF BothStrings(a, b) THEN push(s, Boolean(StrGt(a.s, b.s)))
             ELSE SetError(s, "InvalidOperands")
i_ge(m) ==
    LET o == Operands(m)
        s == o[1]
        a == o[2]
        b == o[3]
    IN  IF s.halt # "none" THEN s
        ELSE IF BothNumbers(a, b) THEN push(s, Boolean(NumGe(a, b)))
             ELSE IF BothStrings(a, b) THEN push(s, Boolean(StrGe(a.s, b.s)))
             ELSE SetError(s, "InvalidOperands")
i_le(m) ==
    LET o == Operands(m)
        s == o[1]
        a == o[2]
        b == o[3]
    IN  IF s.halt # "none" THEN s
        ELSE IF BothNumbers(a, b) THEN push(s, Boolean(NumLe(a, b)))
             ELSE IF BothStrings(a, b) THEN push(s, Boolean(StrLe(a.s, b.s)))
             ELSE SetError(s, "InvalidOperands")

\* BVM::i_pop
i_pop(m, count) == PopN(m, count, <<>>)[1]

\* The loop of BVM::i_ret: while self.sp() != self.bp() { self.pop(); }
RECURSIVE PopToBp(_)
PopToBp(m) ==
    IF m.halt # "none" \/ sp(m) = bp(m) THEN m ELSE PopToBp(pop(m)[1])

\* An i_ret that pops the frame of the caller as well.
i_retUnwinding(m) ==
    LET y == pop(m)
        d == PopToBp(y[1])
    IN  IF d.halt # "none" THEN d
        ELSE push([d EXCEPT !.frames = SubSeq(@, 1, Len(@) - 2)], y[2])

\* BVM::i_ret
i_ret(m) ==
    LET y == pop(m)
        d == PopToBp(y[1])
    IN  IF d.halt # "none" THEN d
        ELSE push([d EXCEPT !.frames = SubSeq(@, 1, Len(@) - 1)], y[2])

\* Array::get
Array_get(heap, r, index) ==
    IF index < Len(heap[r]) THEN <<TRUE, heap[r][index + 1]>> ELSE <<FALSE, Nil>>

\* BVM::i_get
i_get(m) ==
    LET o == Operands(m)
        s == o[1]
        val == o[2]
        idx == o[3]
    IN  IF s.halt # "none" THEN s
        ELSE IF val.t = "Array" /\ idx.t = "Number"
        THEN LET g == Array_get(s.heap, val.ref, AsUsize(idx))
             IN  IF g[1] THEN push(s, g[2]) ELSE SetError(s, "IndexOutOfBound")
        ELSE IF val.t = "String" /\ idx.t = "Number"
        THEN IF AsUsize(idx) < Len(val.s)
             THEN push(s, String(<<val.s[AsUsize(idx) + 1]>>))
             ELSE SetError(s, "IndexOutOfBound")
        ELSE SetError(s, "InvalidOperands")

\* Array::set: <<the VM, the returned bool>>.  `arr`, the RefMut of the first
\* borrow_mut(), is alive when the in-range branch calls borrow_mut() again: the
\* RefCell panics (already borrowed) and the element is not written.
Array_set(m, r, index, value) ==
    IF Len(m.heap[r]) <= index THEN <<m, FALSE>> ELSE <<Panic(m), FALSE>>

\* BVM::i_set
i_set(m) ==
    LET pe == pop(m)
        pi == pop(pe[1])
        pv == pop(pi[1])
        s == pv[1]
        ele == pe[2]
        idx == pi[2]
        val == pv[2]
    IN  IF s.halt # "none" THEN s
        ELSE IF val.t = "Array" /\ idx.t = "Number"
        THEN LET r == Array_set(s, val.ref, AsUsize(idx), ele)
             IN  IF r[1].halt # "none" THEN r[1]
                 ELSE IF r[2] THEN push(r[1], val)
                 ELSE SetError(r[1], "IndexOutOfBound")
        ELSE SetError(s, "InvalidOperands")

\* The loops of BVM::push_args.
RECURSIVE PushNils(_, _)
PushNils(m, n) == IF n = 0 THEN m ELSE PushNils(push(m, Nil), n - 1)

\* BVM::push_args without the loop that drops the surplus arguments
push_argsPadding(m, argc, param_count) ==
    IF argc >= param_count THEN m ELSE PushNils(m, param_count - argc)

\* BVM::push_args
push_args(m, argc, param_count) ==
    IF argc >= param_count THEN PopN(m, argc - param_count, <<>>)[1]
    ELSE PushNils(m, param_count - argc)

Range(f) == {f[i] : i \in DOMAIN f}

\* Vec::remove(index)
Remove(s, index) == SubSeq(s, 1, index) \o SubSeq(s, index + 2, Len(s))

\* ------------------------------------------------- the host facade, natives

\* BakhtScript::array_len on the value popped from the stack.
array_len(m) ==
    LET p == pop(m)
    IN  IF p[1].halt # "none" THEN p[1]
        ELSE IF p[2].t = "Array" THEN push(p[1], Num(Len(p[1].heap[p[2].ref])))
        ELSE IF p[2].t = "String" THEN push(p[1], Num(Len(p[2].s)))
        ELSE SetError(p[1], "InvalidOperands")

\* BakhtScript::array_push: the element is on top, the array below it.
array_push(m) ==
    LET o == Operands(m)
        s == o[1]
        arr == o[2]
        ele == o[3]
    IN  IF s.halt # "none" THEN s
        ELSE IF arr.t = "Array" THEN [s EXCEPT !.heap[arr.ref] = Append(@, ele)]
        ELSE SetError(s, "InvalidOperands")

\* BakhtScript::array_pop
array_pop(m) ==
    LET p == pop(m)
    IN  IF p[1].halt # "none" THEN p[1]
        ELSE IF p[2].t = "Array"
        THEN LET a == p[1].heap[p[2].ref]
             IN  IF a = <<>> THEN SetError(p[1], "IndexOutOfBound")
                 ELSE push([p[1] EXCEPT !.heap[p[2].ref] = SubSeq(a, 1, Len(a) - 1)],
                           a[Len(a)])
        ELSE SetError(p[1], "InvalidOperands")

\* bakht_print, bakht_push, bakht_pop, bakht_len (the text print writes is not kept)
bakht_print(m) == push(pop(m)[1], Nil)
bakht_push(m) == LET a == array_push(m) IN IF a.halt # "none" THEN a ELSE push(a, Nil)
bakht_pop(m) == array_pop(m)
bakht_len(m) == array_len(m)

\* The native arm of i_call without `*self = bs.vm`: the BVM stays the default
\* one std::mem::take left in its place.
CallNativeTaken(m, func) == BVM_default

\* The native arm of i_call: the BVM is moved into a BakhtScript, the native runs
\* on it, and the BVM is moved back.
CallNative(m, func) ==
    CASE func = "bakht_print" -> bakht_print(m)
      [] func = "bakht_push" -> bakht_push(m)
      [] func = "bakht_pop" -> bakht_pop(m)
      [] func = "bakht_len" -> bakht_len(m)

\* ------------------------------------------------------------------- calls

\* i_call whose last match arm leaves the error slot alone.
i_callSilent(m, argc, wrap) ==
    IF sp(m) < 1 + argc THEN Panic(m)
    ELSE LET func == m.stack[sp(m) - 1 - argc + 1]
             s == [m EXCEPT !.stack = Remove(@, sp(m) - 1 - argc)]
         IN  IF func.t = "Function"
             THEN LET a == push_args(s, argc, func.param_count)
                  IN  IF func.k = "Bakht"
                      THEN IF sp(a) < argc /\ ~wrap THEN Panic(a)
                           ELSE [a EXCEPT !.frames =
                                     Append(@, Frame(func.address, sp(a) - argc))]
                      ELSE CallNative(a, func.func)
             ELSE s

\* BVM::i_call.  `wrap` is the build's answer to an overflowing usize subtraction in
\* `self.sp() - argc`: FALSE panics (overflow checks on), TRUE wraps around; a wrapped
\* bp is kept as the negative number it is congruent to.
i_call(m, argc, wrap) ==
    IF sp(m) < 1 + argc THEN Panic(m)
    ELSE LET func == m.stack[sp(m) - 1 - argc + 1]
             s == [m EXCEPT !.stack = Remove(@, sp(m) - 1 - argc)]
         IN  IF func.t = "Function"
             THEN LET a == push_args(s, argc, func.param_count)
                  IN  IF func.k = "Bakht"
                      THEN IF sp(a) < argc /\ ~wrap THEN Panic(a)
                           ELSE [a EXCEPT !.frames =
                                     Append(@, Frame(func.address, sp(a) - argc))]
                      ELSE CallNative(a, func.func)
             ELSE SetError(s, "CallingNonFunction")

\* Whether i_call(m, argc) reaches its call of self.process().
CallEntersProcess(m, argc, wrap) ==
    /\ sp(m) >= 1 + argc
    /\ m.stack[sp(m) - 1 - argc + 1].t = "Function"
    /\ m.stack[sp(m) - 1 - argc + 1].k = "Bakht"
    /\ i_call(m, argc, wrap).halt = "none"

\* --------------------------------------------------- the VM trait of the BVM

\* VM::rodata_number, rodata_literal, rodata_native: <<the VM, the index>>
rodata_number(m, number) ==
    <<[m EXCEPT !.constants = Append(@, number)], Len(m.constants)>>
rodata_literal(m, literal) ==
    <<[m EXCEPT !.constants = Append(@, String(literal))], Len(m.constants)>>
rodata_native(m, func, param_count) ==
    <<[m EXCEPT !.constants = Append(@, Native(param_count, func))], Len(m.constants)>>

\* VM::rodata_function: the constant is also pushed on the stack.
rodata_function(m, param_count, entry) ==
    LET address == Len(m.bin)
        idx == Len(m.constants)
        val == Bakht(param_count, address)
        c == [m EXCEPT !.constants = Append(@, val),
                       !.entry = IF entry THEN idx ELSE @]
    IN  <<push(c, val), idx>>

\* BVM::init
init(m) == [m EXCEPT !.frames = Append(@, Frame(0, 0))]

\* A reset that forgets to clear the error slot and the frames.
resetData(m) ==
    init([m EXCEPT !.bin = <<>>, !.constants = <<>>, !.stack = <<>>, !.entry = 0,
                   !.heap = <<>>])

\* BVM::reset: the four vectors are cleared (which drops every Arc<Array> they
\* held), the error slot and the entry are set, and init pushes the base frame.
reset(m) ==
    init([m EXCEPT !.bin = <<>>, !.constants = <<>>, !.stack = <<>>, !.frames = <<>>,
                   !.error = "None", !.entry = 0, !.heap = <<>>])

\* ------------------------------------------------------------- the scanner

\* `let v = <value>; <body>`: the body F applied to the value.
With(v, F(_)) == F(v)

\* The text of a program is its sequence of characters (Text = Arc<Vec<char>>).
\* Sources are written as words; Spell gives the characters of the words of more
\* than one character.
Spell ==
    "fn" :> <<"f", "n">> @@ "let" :> <<"l", "e", "t">> @@ "if" :> <<"i", "f">>
    @@ "else" :> <<"e", "l", "s", "e">> @@ "while" :> <<"w", "h", "i", "l", "e">>
    @@ "nil" :> <<"n", "i", "l">> @@ "true" :> <<"t", "r", "u", "e">>
    @@ "false" :> <<"f", "a", "l", "s", "e">>
    @@ "return" :> <<"r", "e", "t", "u", "r", "n">>
    @@ "main" :> <<"m", "a", "i", "n">> @@ "add" :> <<"a", "d", "d">>
    @@ "xs" :> <<"x", "s">> @@ "hi" :> <<"h", "i">>
    @@ "==" :> <<"=", "=">> @@ "!=" :> <<"!", "=">> @@ "<=" :> <<"<", "=">>
    @@ ">=" :> <<">", "=">> @@ "10" :> <<"1", "0">> @@ "20" :> <<"2", "0">>
    @@ "30" :> <<"3", "0">> @@ "'hi'" :> <<"'", "h", "i", "'">>
    @@ "''" :> <<"'", "'">> @@ "'a'" :> <<"'", "a", "'">> @@ "'b'" :> <<"'", "b", "'">>

RECURSIVE Chars(_)
Chars(words) ==
    IF words = <<>> THEN <<>>
    ELSE (IF Head(words) \in DOMAIN Spell THEN Spell[Head(words)] ELSE <<Head(words)>>)
         \o Chars(Tail(words))

\* What Scanner::peek returns at the end of the text.
NUL == "NUL"

\* char::is_whitespace, is_ascii_alphabetic, is_ascii_digit, on the model's characters
Whitespace == {" ", "\n"}
Alphabetic == {"a", "b", "d", "e", "f", "h", "i", "l", "m", "n", "r", "s", "t", "u",
               "w", "x", "y"}
Digit == {"0", "1", "2", "3", "5", "7"}

SINGLE_CHARS == {"+", "-", "*", "/", "%", "[", "]", "(", ")", "{", "}", ",", "."}
EQUAL_FOLLOW == {"=", ">", "<", "!"}

\* TokenKind: Single(c) carries its character, the other kinds carry none.
Kind(k) == [k |-> k, c |-> ""]
Single(c) == [k |-> "Single", c |-> c]

\* Token
Token(from, len, kind) == [from |-> from, len |-> len, kind |-> kind]

\* Token::text
TokenText(token, text) == SubSeq(text, token.from + 1, token.from + token.len)

\* Token::is_discardable, Token::is_error, Token::is
is_discardable(token) == token.kind.k = "White" \/ token.kind.k = "Comment"
is_error(token) == token.kind.k = "Error"
is(token, c) == token.kind = Single(c)

\* A Scanner is [text, old_ptr, ptr].
Scanner_new(text) == [text |-> text, ptr |-> 0, old_ptr |-> 0]

\* Scanner::token
Scanner_token(s, kind) == Token(s.old_ptr, s.ptr - s.old_ptr, kind)

\* Scanner::peek
Scanner_peek(s) == IF s.ptr >= Len(s.text) THEN NUL ELSE s.text[s.ptr + 1]

\* Scanner::pop (the scanner after it)
Scanner_pop(s) == [s EXCEPT !.ptr = @ + 1]

\* `while <peek is in chars> { self.pop(); }`
RECURSIVE PopWhile(_, _)
PopWhile(s, chars) ==
    IF Scanner_peek(s) \in chars THEN PopWhile(Scanner_pop(s), chars) ELSE s

\* `while <peek is none of chars> { self.pop(); }`
RECURSIVE PopUntil(_, _)
PopUntil(s, chars) ==
    IF Scanner_peek(s) \notin chars THEN PopUntil(Scanner_pop(s), chars) ELSE s

\* The keyword kind of an identifier's text.
Keyword(tt) ==
    IF tt = Spell["if"] THEN Kind("If")
    ELSE IF tt = Spell["while"] THEN Kind("While")
    ELSE IF tt = Spell["else"] THEN Kind("Else")
    ELSE IF tt = Spell["fn"] THEN Kind("Fn")
    ELSE IF tt = Spell["false"] THEN Kind("False")
    ELSE IF tt = Spell["true"] THEN Kind("True")
    ELSE IF tt = Spell["nil"] THEN Kind("Nil")
    ELSE IF tt = Spell["return"] THEN Kind("Return")
    ELSE IF tt = Spell["let"] THEN Kind("Let")
    ELSE Kind("Identifier")

\* What Scanner::read returns, with the scanner it leaves: [s, token, hang].
Read(s, kind) == [s |-> s, token |-> Scanner_token(s, kind), hang |-> FALSE]

\* The ends of the identifier, literal and comment branches of Scanner::read, after
\* their loops.
ReadIdentifier(s) == Read(s, Keyword(TokenText(Scanner_token(s, Kind("Identifier")), s.text)))
ReadLiteral(s) ==
    IF Scanner_peek(s) = "'" THEN Read(Scanner_pop(s), Kind("Literal"))
    ELSE Read(s, Kind("Error"))
ReadComment(s) ==
    Read(IF Scanner_peek(s) = "\n" THEN Scanner_pop(s) ELSE s, Kind("Comment"))

\* Scanner::read.  After a first character '_' the identifier
\* loop's condition `self.peek().is_ascii_alphanumeric() || c == '_'` stays true:
\* the loop pops for ever (hang).
Scanner_read(s) ==
    LET c == Scanner_peek(s)
        p == Scanner_pop(s)
    IN  IF c = NUL THEN Read(s, Kind("EOF"))
        ELSE IF c \in Whitespace THEN Read(PopWhile(p, Whitespace), Kind("White"))
        ELSE IF c = "_" THEN [Read(p, Kind("Identifier")) EXCEPT !.hang = TRUE]
        ELSE IF c \in Alphabetic THEN ReadIdentifier(PopWhile(p, Alphabetic \cup Digit))
        ELSE IF c = "'" THEN ReadLiteral(PopUntil(p, {"'", NUL}))
        ELSE IF c \in Digit THEN Read(PopWhile(p, Digit), Kind("Number"))
        ELSE IF c = "#" THEN ReadComment(PopUntil(p, {"\n", NUL}))
        ELSE IF c \in SINGLE_CHARS THEN Read(p, Single(c))
        ELSE IF c \in EQUAL_FOLLOW
        THEN IF Scanner_peek(p) = "=" THEN Read(Scanner_pop(p), Kind("Double"))
             ELSE Read(p, Single(c))
        ELSE Read(p, Kind("Error"))

\* Scanner::sync
Scanner_sync(s) == [s EXCEPT !.old_ptr = s.ptr]

\* Scanner::next: read and sync until the token is not discardable.
RECURSIVE Scanner_next(_)
Scanner_next(s) ==
    With(Scanner_read(s), LAMBDA r :
        IF r.hang \/ ~is_discardable(r.token) THEN [r EXCEPT !.s = Scanner_sync(r.s)]
        ELSE Scanner_next(Scanner_sync(r.s)))

\* ------------------------------------------------------------ the compiler

\* A Compiler is [scanner, vm, text, token_buffer, scopes, offset] and, for the
\* run of its methods: `res`, "Ok" until a method returns Err (the Error's name) or
\* the process ends ("exit": exit(1), "panic", "hang": a loop without end), after
\* which every method leaves the compiler as it is; `tok`, the token of the Error;
\* `ret`, the value the last method returned; `code`, the instructions emitted so
\* far; `formals`, the names paramlist has read for the function at hand; `notes`,
\* a record of what was compiled: [what, text, n, ins].  token_buffer is <<>>
\* (None) or <<token>>.  A Scope is the sequence of its
\* entries [name, idx], in the order of their insertion.
Compiler_new(text, scanner, m) ==
    [scanner |-> scanner, vm |-> m, text |-> text, token_buffer |-> <<>>,
     scopes |-> << <<>> >>, offset |-> 0,
     res |-> "Ok", tok |-> <<>>, ret |-> <<>>, code |-> <<>>,
     formals |-> <<>>, notes |-> <<>>]

Ok(c) == c.res = "Ok"
Return(c, value) == [c EXCEPT !.ret = value]
Err(c, error, token) == [c EXCEPT !.res = error, !.tok = <<token>>]
Halt(c, how) == [c EXCEPT !.res = how]

\* The instruction of a note about a method that returned none.
NoIns == Ins(-1, NoOperand)
Note(c, what, text, n, ins) ==
    [c EXCEPT !.notes = Append(@, [what |-> what, text |-> text, n |-> n, ins |-> ins])]

\* The position (from 0) of `name` among the formals, or -1.
FormalIndex(c, name) ==
    IF \E i \in 1..Len(c.formals) : c.formals[i] = name
    THEN (CHOOSE i \in 1..Len(c.formals) : c.formals[i] = name) - 1
    ELSE -1

\* pwr_infix with one pair of binding powers for every operator.
pwr_infixOneLevel(op) ==
    IF \/ op = <<"+">> \/ op = <<"-">> \/ op = <<"*">> \/ op = <<"/">> \/ op = <<"%">>
       \/ op = <<"<">> \/ op = <<">">> \/ op = <<"<", "=">> \/ op = <<">", "=">>
       \/ op = <<"=", "=">> \/ op = <<"!", "=">> THEN <<51, 52>>
    ELSE <<>>

\* Compiler::pwr_infix, pwr_postfix, pwr_prefix: the pair, or <<>> for None
pwr_infix(op) ==
    IF op = <<"+">> \/ op = <<"-">> THEN <<51, 52>>
    ELSE IF op = <<"*">> \/ op = <<"/">> \/ op = <<"%">> THEN <<53, 54>>
    ELSE IF \/ op = <<"<">> \/ op = <<">">> \/ op = <<"<", "=">> \/ op = <<">", "=">>
            \/ op = <<"=", "=">> \/ op = <<"!", "=">> THEN <<49, 50>>
    ELSE <<>>
pwr_postfix(op) ==
    IF op = <<"(">> \/ op = <<"[">> \/ op = <<".">> THEN <<59>> ELSE <<>>
pwr_prefix(op) ==
    IF op = <<"+">> \/ op = <<"-">> THEN <<56>> ELSE <<>>

\* Compiler::token
Compiler_token(c) ==
    With(Scanner_next(c.scanner), LAMBDA r :
        IF r.hang THEN Halt([c EXCEPT !.scanner = r.s], "hang")
        ELSE IF is_error(r.token) THEN Err([c EXCEPT !.scanner = r.s], "Scanner", r.token)
        ELSE Return([c EXCEPT !.scanner = r.s], r.token))

\* Compiler::pop
Compiler_pop(c) ==
    IF c.res # "Ok" THEN c
    ELSE IF c.token_buffer # <<>>
    THEN Return([c EXCEPT !.token_buffer = <<>>], c.token_buffer[1])
    ELSE Compiler_token(c)

\* Compiler::peek
Compiler_peek(c) ==
    IF c.res # "Ok" THEN c
    ELSE IF c.token_buffer # <<>> THEN Return(c, c.token_buffer[1])
    ELSE With(Compiler_token(c), LAMBDA t :
             IF t.res # "Ok" THEN t ELSE [t EXCEPT !.token_buffer = <<t.ret>>])

\* Compiler::emit, on the compiler
Compiler_emit(c, instruction) ==
    IF c.res # "Ok" THEN c
    ELSE Note([c EXCEPT !.vm = emit(@, instruction), !.code = Append(@, instruction)],
              "emit", <<>>, c.offset, instruction)

\* Compiler::expect
Compiler_expect(c, kind) ==
    With(Compiler_pop(c), LAMBDA p :
        IF p.res # "Ok" THEN p
        ELSE IF p.ret.kind # kind THEN Err(p, "UnexpectedToken", p.ret)
        ELSE p)

\* Compiler::get_token_text
get_token_text(c, token) == TokenText(token, c.text)

\* Compiler::compile_operator: the instruction, or the panic of its last arms.
compile_operator(c, token) ==
    IF c.res # "Ok" THEN c
    ELSE IF token.kind = Single("+") THEN Return(c, I0(IADD))
    ELSE IF token.kind = Single("-") THEN Return(c, I0(ISUB))
    ELSE IF token.kind = Single("*") THEN Return(c, I0(IMULT))
    ELSE IF token.kind = Single("/") THEN Return(c, I0(IDIV))
    ELSE IF token.kind = Single("%") THEN Return(c, I0(IMOD))
    ELSE IF token.kind = Kind("Double")
    THEN LET text == get_token_text(c, token)
         IN  IF text = <<"=", "=">> THEN Return(c, I0(IEQ))
             ELSE IF text = <<"!", "=">> THEN Return(c, I0(INE))
             ELSE IF text = <<">", "=">> THEN Return(c, I0(IGE))
             ELSE IF text = <<"<", "=">> THEN Return(c, I0(ILE))
             ELSE IF text = <<"<">> THEN Return(c, I0(ILT))
             ELSE IF text = <<">">> THEN Return(c, I0(IGT))
             ELSE Halt(c, "panic")
    ELSE Halt(c, "panic")

\* str::parse::<f32> on the digits of a Number token
DigitValue(d) ==
    CASE d = "0" -> 0 [] d = "1" -> 1 [] d = "2" -> 2 [] d = "3" -> 3
      [] d = "5" -> 5 [] d = "7" -> 7
RECURSIVE ParseNumber(_, _)
ParseNumber(digits, value) ==
    IF digits = <<>> THEN value
    ELSE ParseNumber(Tail(digits), 10 * value + DigitValue(Head(digits)))

\* The entry of `name` in a scope: <<idx>>, or <<>>.
RECURSIVE ScopeGet(_, _)
ScopeGet(scope, name) ==
    IF scope = <<>> THEN <<>>
    ELSE IF scope[Len(scope)].name = name THEN <<scope[Len(scope)].idx>>
    ELSE ScopeGet(SubSeq(scope, 1, Len(scope) - 1), name)

\* The loop of get_id: the scopes from the innermost (index i - 1) to scope 0.
RECURSIVE FindId(_, _, _)
FindId(scopes, i, name) ==
    IF i = 0 THEN <<>>
    ELSE IF ScopeGet(scopes[i], name) # <<>>
    THEN <<ScopeGet(scopes[i], name)[1], i - 1 = 0>>
    ELSE FindId(scopes, i - 1, name)

\* Compiler::get_id: returns (idx, is_global); exit(1) for an unknown identifier.
get_id(c, token) ==
    IF c.res # "Ok" THEN c
    ELSE With(FindId(c.scopes, Len(c.scopes), get_token_text(c, token)), LAMBDA found :
             IF found = <<>>
             THEN Halt(Note(c, "unknown", get_token_text(c, token), token.from, NoIns), "exit")
             ELSE Return(c, found))

\* Compiler::compile_load_id
compile_load_id(c, token) ==
    IF c.res # "Ok" THEN c
    ELSE With(get_id(c, token), LAMBDA g :
             LET name == get_token_text(c, token)
                 i == IF g.ret[2] THEN I1(IKONST, g.ret[1]) ELSE I1(ILOAD, g.ret[1])
             IN  IF g.res # "Ok" THEN Note(g, "load", name, FormalIndex(c, name), NoIns)
                 ELSE Note(Return(g, i), "load", name, FormalIndex(c, name), i))

\* The binding an identifier resolves to: <<scope, slot>> of the innermost scope of
\* the stack (from 0, the global one) that has the name, or <<>>.
Binding(scopes, name) ==
    LET having == {i \in 1..Len(scopes) : \E k \in 1..Len(scopes[i]) :
                                             scopes[i][k].name = name}
    IN  IF having = {} THEN <<>>
        ELSE LET i == CHOOSE x \in having : \A y \in having : y <= x
                 k == CHOOSE x \in 1..Len(scopes[i]) :
                          /\ scopes[i][x].name = name
                          /\ \A y \in x + 1..Len(scopes[i]) : scopes[i][y].name # name
             IN  <<i - 1, scopes[i][k].idx>>

\* compile_store_id without its test of is_global.
compile_store_idAnyScope(c, token) ==
    IF c.res # "Ok" THEN c
    ELSE With(get_id(c, token), LAMBDA g :
             LET name == get_token_text(c, token)
                 i == I1(ISTORE, g.ret[1])
             IN  IF g.res # "Ok" THEN Note(g, "store", name, FormalIndex(c, name), NoIns)
                 ELSE Note(Note(Return(g, i), "store", name, FormalIndex(c, name), i),
                           "assign", name, Binding(c.scopes, name), i))

\* Compiler::compile_store_id
compile_store_id(c, token) ==
    IF c.res # "Ok" THEN c
    ELSE With(get_id(c, token), LAMBDA g :
             LET name == get_token_text(c, token)
                 i == I1(ISTORE, g.ret[1])
             IN  IF g.res # "Ok" THEN Note(g, "store", name, FormalIndex(c, name), NoIns)
                 ELSE IF g.ret[2]
                 THEN Note(Note(Err(g, "Immutable", token), "store", name,
                                FormalIndex(c, name), NoIns),
                           "assign", name, Binding(c.scopes, name), NoIns)
                 ELSE Note(Note(Return(g, i), "store", name, FormalIndex(c, name), i),
                           "assign", name, Binding(c.scopes, name), i))

\* Compiler::compile_atom
compile_atom(c, token) ==
    IF c.res # "Ok" THEN c
    ELSE IF token.kind = Kind("Number")
    THEN With(rodata_number(c.vm, Num(ParseNumber(get_token_text(c, token), 0))),
              LAMBDA r : Return([c EXCEPT !.vm = r[1]], I1(IKONST, r[2])))
    ELSE IF token.kind = Kind("Literal")
    THEN With(rodata_literal(c.vm, get_token_text(c, token)), LAMBDA r :
             Note(Return([c EXCEPT !.vm = r[1]], I1(IKONST, r[2])),
                  "literal", get_token_text(c, token), r[2], I1(IKONST, r[2])))
    ELSE IF token.kind = Kind("True") THEN Return(c, I0(ITRUE))
    ELSE IF token.kind = Kind("False") THEN Return(c, I0(IFALSE))
    ELSE IF token.kind = Kind("Nil") THEN Return(c, I0(INIL))
    ELSE IF token.kind = Kind("Identifier") THEN compile_load_id(c, token)
    ELSE Err(c, "UnexpectedToken", token)

\* `self.<method>(..)`: a method of the compiler `c` on the arguments `a`.
RECURSIVE self(_, _, _)


\* Compiler::expr
expr(c) == self("expr_p", c, <<0>>)

\* Compiler::property
property(c) ==
    With(Compiler_expect(c, Kind("Identifier")), LAMBDA id :
        IF id.res # "Ok" THEN id
        ELSE With(rodata_literal(id.vm, get_token_text(id, id.ret)), LAMBDA r :
                 Compiler_emit([id EXCEPT !.vm = r[1]], I1(IKONST, r[2]))))

\* `-1.0 *` of the prefix minus in expr_p
Negate(c) ==
    IF c.res # "Ok" THEN c
    ELSE With(rodata_number(c.vm, Num(-1)), LAMBDA r :
             Compiler_emit(Compiler_emit([c EXCEPT !.vm = r[1]], I1(IKONST, r[2])),
                           I0(IMULT)))

\* `self.emit(Instruction::Anew(count))` and `self.emit(Instruction::Call(argc))`
\* after explist, and `self.emit(i)` after compile_atom, compile_store_id: the
\* instruction with the operand the method returned.
EmitReturned(c, opc) == IF c.res # "Ok" THEN c ELSE Compiler_emit(c, I1(opc, c.ret))
EmitInstruction(c) == IF c.res # "Ok" THEN c ELSE Compiler_emit(c, c.ret)

\* The head of expr_p after its pop: the prefix, the parenthesis, the array or the
\* atom.
expr_first(c, token) ==
    LET text == get_token_text(c, token)
    IN  IF pwr_prefix(text) # <<>>
        THEN IF token.kind = Single("-")
             THEN Negate(self("expr_p", c, <<pwr_prefix(text)[1]>>))
             ELSE self("expr_p", c, <<pwr_prefix(text)[1]>>)
        ELSE IF text = <<"(">> THEN Compiler_expect(self("expr", c, <<>>), Single(")"))
        ELSE IF text = <<"[">> THEN EmitReturned(self("explist", c, <<"]">>), IANEW)
        ELSE EmitInstruction(compile_atom(c, token))

\* Compiler::expr_p: the head, then the loop over the suffixes and infix operators.
expr_p(c, pwr) ==
    With(Compiler_pop(c), LAMBDA p :
        IF p.res # "Ok" THEN p
        ELSE With(expr_first(p, p.ret), LAMBDA x :
                 IF x.res # "Ok" THEN x ELSE self("expr_loop", x, <<p.ret, pwr>>)))

\* A suffix of the loop of expr_p, after its pop: the call, the property or the
\* index.
expr_postfix(c, t) ==
    IF t.kind = Single("(") THEN EmitReturned(self("explist", c, <<")">>), ICALL)
    ELSE IF t.kind = Single(".") THEN Compiler_emit(self("property", c, <<>>), I0(IGET))
    ELSE With(Compiler_emit(Compiler_expect(self("expr", c, <<>>), Single("]")), I0(ISET)),
              LAMBDA x :
             IF x.res # "Ok" THEN x ELSE Note(x, "index", get_token_text(c, t), 0, I0(ISET)))

\* An infix operator of the loop of expr_p, after its pop: compile_operator, the
\* right operand, the emit.
expr_infix(c, t, rp) ==
    With(compile_operator(c, t), LAMBDA i :
        IF i.res # "Ok" THEN Note(i, "infix", get_token_text(c, t), 0, NoIns)
        ELSE With(self("expr_p", i, <<rp>>), LAMBDA e :
                 IF e.res # "Ok" THEN e
                 ELSE Note(Compiler_emit(e, i.ret), "infix", get_token_text(c, t), 0,
                           i.ret)))

\* Whether the loop of expr_p breaks at the token t it peeked.
expr_break(t, ttext, token, pwr) ==
    \/ t.kind.k = "Single" /\ t.kind.c \in {"}", "{", ",", ")", "]"}
    \/ t.kind.k # "Single" /\ t.kind.k # "Double"
    \/ /\ pwr_postfix(ttext) # <<>>
       /\ \/ token.kind # Kind("Identifier") /\ ~is(token, "(") /\ ~is(token, "[")
          \/ pwr > pwr_postfix(ttext)[1]
    \/ /\ pwr_postfix(ttext) = <<>> /\ pwr_infix(ttext) # <<>>
       /\ pwr > pwr_infix(ttext)[1]

\* The `loop` of expr_p; `token` is the first token of the expression.
expr_loop(c, token, pwr) ==
    With(Compiler_peek(c), LAMBDA k :
        LET t == k.ret
            ttext == get_token_text(k, t)
        IN  IF k.res # "Ok" THEN k
            ELSE IF expr_break(t, ttext, token, pwr) THEN k
            ELSE IF pwr_postfix(ttext) # <<>>
            THEN With(expr_postfix(Compiler_pop(k), t), LAMBDA x :
                     IF x.res # "Ok" THEN x ELSE self("expr_loop", x, <<token, pwr>>))
            ELSE IF pwr_infix(ttext) # <<>>
            THEN With(expr_infix(Compiler_pop(k), t, pwr_infix(ttext)[2]), LAMBDA x :
                     IF x.res # "Ok" THEN x ELSE self("expr_loop", x, <<token, pwr>>))
            ELSE Err(k, "UnexpectedToken", t))

\* Compiler::explist: returns the number of expressions.
explist(c, end) ==
    With(Compiler_peek(c), LAMBDA k :
        IF k.res # "Ok" THEN k
        ELSE IF k.ret.kind = Single(end) THEN Return(Compiler_pop(k), 0)
        ELSE self("explist_loop", k, <<end, 0>>))

\* The `loop` of explist.
explist_loop(c, end, count) ==
    With(Compiler_peek(self("expr", c, <<>>)), LAMBDA k :
        IF k.res # "Ok" THEN k
        ELSE IF k.ret.kind = Single(end) THEN Return(Compiler_pop(k), count + 1)
        ELSE self("explist_loop", Compiler_expect(k, Single(",")), <<end, count + 1>>))

\* AssignCallState: InitialRvalue, Call, Identifier(token), Index
State(s) == [s |-> s, token |-> <<>>]
StateIdentifier(token) == [s |-> "Identifier", token |-> <<token>>]

\* AssignCallState::endable with the arms of Call and Index exchanged
endableCall(state) == state.s = "Identifier" \/ state.s = "Call"

\* AssignCallState::endable
endable(state) == state.s = "Identifier" \/ state.s = "Index"

\* What flush_lvalue did: the state, the binding of the identifier of the state,
\* the number of instructions emitted and the last of them.
Flushed(c, state, r) ==
    LET name == IF state.s = "Identifier" THEN get_token_text(c, state.token[1]) ELSE <<>>
    IN  Note(r, "flush", name,
             [state |-> state.s, res |-> r.res, emitted |-> Len(r.code) - Len(c.code),
              binding |-> IF state.s = "Identifier" THEN Binding(c.scopes, name) ELSE <<>>],
             IF Len(r.code) > Len(c.code) THEN r.code[Len(r.code)] ELSE NoIns)

\* Compiler::flush_lvalue with a get after a call as after an index
flush_lvalueCall(c, state) ==
    IF c.res # "Ok" THEN c
    ELSE Flushed(c, state,
                 IF state.s = "Identifier"
                 THEN EmitInstruction(compile_load_id(c, state.token[1]))
                 ELSE IF state = State("Index") \/ state = State("Call")
                 THEN Compiler_emit(c, I0(IGET))
                 ELSE c)

\* Compiler::flush_lvalue
flush_lvalue(c, state) ==
    IF c.res # "Ok" THEN c
    ELSE Flushed(c, state,
                 IF state.s = "Identifier"
                 THEN EmitInstruction(compile_load_id(c, state.token[1]))
                 ELSE IF state = State("Index") THEN Compiler_emit(c, I0(IGET))
                 ELSE c)

\* The end of an assignment in the loop of assign_call, after the expression: the
\* store of the identifier, or set.
assign_store(c, state) ==
    IF c.res # "Ok" THEN c
    ELSE IF state.s = "Identifier"
    THEN EmitInstruction(compile_store_id(c, state.token[1]))
    ELSE Compiler_emit(c, I0(ISET))

\* What the loop of assign_call did at the token that ends the statement: the
\* state it was in, the result, and the instruction emitted last if any was.
Ended(c, r, state, tkn) ==
    Note(r, "end", get_token_text(c, tkn),
         [state |-> state.s, res |-> r.res, emitted |-> Len(r.code) - Len(c.code)],
         IF Len(r.code) > Len(c.code) THEN r.code[Len(r.code)] ELSE NoIns)

\* The `loop` of assign_call.
assign_loop(c, state) ==
    With(Compiler_peek(c), LAMBDA k :
        LET tkn == k.ret
        IN  IF k.res # "Ok" THEN k
            ELSE IF is(tkn, "=")
            THEN Ended(k, IF endable(state)
                          THEN assign_store(self("expr", Compiler_pop(k), <<>>), state)
                          ELSE Err(Compiler_pop(k), "UnexpectedToken", tkn),
                       state, tkn)
            ELSE IF is(tkn, "[")
            THEN self("assign_loop",
                      Compiler_expect(self("expr", flush_lvalue(Compiler_pop(k), state), <<>>),
                                      Single("]")),
                      <<State("Index")>>)
            ELSE IF is(tkn, ".")
            THEN self("assign_loop",
                      self("property", flush_lvalue(Compiler_pop(k), state), <<>>),
                      <<State("Index")>>)
            ELSE IF is(tkn, "(")
            THEN self("assign_loop",
                      EmitReturned(self("explist", flush_lvalue(Compiler_pop(k), state),
                                        <<")">>),
                                   ICALL),
                      <<State("Call")>>)
            ELSE Ended(k, IF state = State("Call") THEN Compiler_emit(k, I1(IPOP, 1))
                          ELSE Err(k, "UnexpectedToken", tkn),
                       state, tkn))

\* The head of assign_call after its pop: the parenthesis, the array or the
\* identifier.
assign_first(c, tkn) ==
    IF is(tkn, "(") THEN Compiler_expect(self("expr", c, <<>>), Single(")"))
    ELSE IF is(tkn, "[") THEN EmitReturned(self("explist", c, <<"]">>), IANEW)
    ELSE IF tkn.kind = Kind("Identifier") THEN c
    ELSE Err(c, "UnexpectedToken", tkn)

\* Compiler::assign_call
assign_call(c) ==
    With(Compiler_pop(c), LAMBDA p :
        IF p.res # "Ok" THEN p
        ELSE self("assign_loop", assign_first(p, p.ret),
                  <<IF p.ret.kind = Kind("Identifier") THEN StateIdentifier(p.ret)
                    ELSE State("InitialRvalue")>>))

\* Compiler::curscope
curscope(c) == c.scopes[Len(c.scopes)]

\* Compiler::new_scope
new_scope(c) == IF c.res # "Ok" THEN c ELSE [c EXCEPT !.scopes = Append(@, <<>>)]

\* What a close_scope did: the scopes, the offset, and the number of emitted
\* instructions before it, and the scopes, the offset and the instructions it
\* emitted after it.
Closed(c, r) ==
    Note(r, "close", <<>>,
         [scopes |-> c.scopes, offset |-> c.offset,
          after |-> [scopes |-> r.scopes, offset |-> r.offset,
                     code |-> SubSeq(r.code, Len(c.code) + 1, Len(r.code))]], NoIns)

\* close_scope without its test `scope_size > 0`.
close_scopeAlways(c) ==
    IF c.res # "Ok" THEN c
    ELSE With(Len(curscope(c)), LAMBDA scope_size :
             With([c EXCEPT !.offset = @ - scope_size], LAMBDA o :
                 Closed(c, [Compiler_emit(o, I1(IPOP, scope_size))
                              EXCEPT !.scopes = SubSeq(@, 1, Len(@) - 1)])))

\* Compiler::close_scope
close_scope(c) ==
    IF c.res # "Ok" THEN c
    ELSE With(Len(curscope(c)), LAMBDA scope_size :
             With([c EXCEPT !.offset = @ - scope_size], LAMBDA o :
                 Closed(c, [(IF scope_size > 0 THEN Compiler_emit(o, I1(IPOP, scope_size))
                             ELSE o)
                              EXCEPT !.scopes = SubSeq(@, 1, Len(@) - 1)])))

\* Where `name` is declared when a declaration of it starts: 1 in the current
\* scope, 2 in an outer scope only, 0 nowhere.
Declared(c, name) ==
    IF ScopeGet(curscope(c), name) # <<>> THEN 1
    ELSE IF FindId(c.scopes, Len(c.scopes), name) # <<>> THEN 2
    ELSE 0

\* register_decl with `self.offset += 1` before `let idx = self.offset`.
register_declSwapped(c, token) ==
    LET name == get_token_text(c, token)
    IN  IF c.res # "Ok" THEN c
        ELSE IF ScopeGet(curscope(c), name) # <<>>
        THEN Halt(Note(c, "decl", name, Declared(c, name), NoIns), "exit")
        ELSE [Note(c, "decl", name, Declared(c, name), NoIns)
                EXCEPT !.offset = @ + 1,
                       !.scopes[Len(c.scopes)] =
                           Append(@, [name |-> name, idx |-> c.offset + 1])]

\* Compiler::register_decl: exit(1) when the current scope has the name.
register_decl(c, token) ==
    LET name == get_token_text(c, token)
    IN  IF c.res # "Ok" THEN c
        ELSE IF ScopeGet(curscope(c), name) # <<>>
        THEN Halt(Note(c, "decl", name, Declared(c, name), NoIns), "exit")
        ELSE [Note(c, "decl", name, Declared(c, name), NoIns)
                EXCEPT !.offset = @ + 1,
                       !.scopes[Len(c.scopes)] = Append(@, [name |-> name, idx |-> c.offset])]

\* Compiler::register_const: exit(1) when the first scope has the name.  Its one
\* caller, function_body, runs it when the first scope is the current one, so the
\* insert adds an entry.
register_const(c, token, idx) ==
    LET name == get_token_text(c, token)
    IN  IF c.res # "Ok" THEN c
        ELSE IF ScopeGet(c.scopes[1], name) # <<>>
        THEN Halt(Note(c, "decl", name, Declared(c, name), NoIns), "exit")
        ELSE [Note(c, "decl", name, Declared(c, name), NoIns)
                EXCEPT !.scopes[Len(c.scopes)] = Append(@, [name |-> name, idx |-> idx])]

\* `self.register_decl(id)` after `let id = self.expect(TokenKind::Identifier)?`
Declare(c) == IF c.res # "Ok" THEN c ELSE register_decl(c, c.ret)

\* Compiler::var_decl
var_decl(c) ==
    With(Compiler_peek(Declare(Compiler_expect(c, Kind("Identifier")))), LAMBDA k :
        IF k.res # "Ok" THEN k
        ELSE IF is(k.ret, "=") THEN self("expr", Compiler_pop(k), <<>>)
        ELSE Compiler_emit(k, I0(INIL)))

\* `while self.peek()?.is(',') { self.pop()?; self.var_decl()?; }` of stmt
let_loop(c) ==
    With(Compiler_peek(c), LAMBDA k :
        IF k.res # "Ok" THEN k
        ELSE IF is(k.ret, ",")
        THEN self("let_loop", self("var_decl", Compiler_pop(k), <<>>), <<>>)
        ELSE k)

\* The loop of stmt after a return: pop up to the next '}' or the end of the text.
skip_loop(c) ==
    With(Compiler_peek(c), LAMBDA k :
        IF k.res # "Ok" THEN k
        ELSE IF ~is(k.ret, "}") /\ k.ret.kind # Kind("EOF")
        THEN self("skip_loop", Compiler_pop(k), <<>>)
        ELSE k)


\* Compiler::stmt
stmt(c) ==
    With(Compiler_peek(c), LAMBDA k :
        IF k.res # "Ok" THEN k
        ELSE IF is(k.ret, "{") THEN self("block", Compiler_pop(k), <<Single("}")>>)
        ELSE IF k.ret.kind = Kind("Let")
        THEN With(self("var_decl", Compiler_pop(k), <<>>), LAMBDA d :
                 IF d.res # "Ok" THEN d ELSE self("let_loop", d, <<>>))
        ELSE IF k.ret.kind = Kind("Return")
        THEN With(self("expr", Compiler_pop(k), <<>>), LAMBDA e :
                 IF e.res # "Ok" THEN e
                 ELSE self("skip_loop", Compiler_emit(e, I0(IRET)), <<>>))
        ELSE self("assign_call", k, <<>>))

\* What a statement that began with `token` and is no return left: the end of its
\* code in bin and the offset.
Stated(s, token) ==
    IF token.kind = Kind("Return") THEN s
    ELSE Note(s, "stmt", <<>>, [at |-> Len(s.vm.bin), offset |-> s.offset], NoIns)

\* `while self.peek()?.kind != end { self.stmt()?; }` of block
block_loop(c, end) ==
    With(Compiler_peek(c), LAMBDA k :
        IF k.res # "Ok" THEN k
        ELSE IF k.ret.kind # end
        THEN With(self("stmt", k, <<>>), LAMBDA s :
                 IF s.res # "Ok" THEN s
                 ELSE self("block_loop", Stated(s, k.ret), <<end>>))
        ELSE k)

\* Compiler::block
block(c, end) == Compiler_pop(close_scope(self("block_loop", new_scope(c), <<end>>)))

\* `self.register_decl(id)` of paramlist, after its expect
Formal(c) ==
    IF c.res # "Ok" THEN c
    ELSE register_decl([c EXCEPT !.formals = Append(@, get_token_text(c, c.ret))], c.ret)

\* The `while` of paramlist: returns param_count.
param_loop(c, param_count) ==
    With(Compiler_peek(c), LAMBDA k :
        IF k.res # "Ok" THEN k
        ELSE IF is(k.ret, ",")
        THEN self("param_loop", Formal(Compiler_expect(Compiler_pop(k), Kind("Identifier"))),
                  <<param_count + 1>>)
        ELSE Return(k, param_count))

\* `self.expect(TokenKind::Single(')'))?; Ok(param_count)` of paramlist
param_end(c) == IF c.res # "Ok" THEN c ELSE Return(Compiler_expect(c, Single(")")), c.ret)

\* Compiler::paramlist: returns param_count.  It runs before function_body opens
\* the function's scope: register_decl enters the parameters in the scope that is
\* current then.
paramlist(c) ==
    With(Compiler_peek(Compiler_expect(c, Single("("))), LAMBDA k :
        IF k.res # "Ok" THEN k
        ELSE IF is(k.ret, ")") THEN Return(Compiler_pop(k), 0)
        ELSE param_end(self("param_loop", Formal(Compiler_expect(k, Kind("Identifier"))),
                            <<1>>)))

\* The function of function_body after its paramlist: rodata_function, the block,
\* register_const; returns is_main.
function_rest(c, id, is_main) ==
    IF c.res # "Ok" THEN c
    ELSE With(rodata_function(c.vm, c.ret, is_main), LAMBDA r :
             Return(register_const(
                        close_scope(self("block",
                                         new_scope(Compiler_expect([c EXCEPT !.vm = r[1]],
                                                                   Single("{"))),
                                         <<Single("}")>>)),
                        id, r[2]),
                    is_main))

\* Compiler::function_body: returns is_main.
function_body(c) ==
    With(Compiler_expect(c, Kind("Identifier")), LAMBDA id :
        IF id.res # "Ok" THEN id
        ELSE With(function_rest(self("paramlist", [id EXCEPT !.formals = <<>>], <<>>),
                                id.ret, get_token_text(c, id.ret) = Spell["main"]),
                  LAMBDA r : Note(r, "function", get_token_text(c, id.ret),
                                  [before |-> c.offset, after |-> r.offset,
                                   ok |-> r.res = "Ok",
                                   start |-> Len(c.vm.bin), end |-> Len(r.vm.bin)],
                                  NoIns)))

\* source that passes over a token that is not `fn`.
source_functionSkipping(c) ==
    IF c.res # "Ok" THEN c
    ELSE With(Note(c, "file", get_token_text(c, c.ret), <<c.ret.from, Len(c.code)>>, NoIns),
              LAMBDA n :
                 IF c.ret.kind # Kind("Fn") THEN Return(n, FALSE)
                 ELSE self("function_body", n, <<>>))

\* A function of the `while` of source, after the pop of its first token.
source_function(c) ==
    IF c.res # "Ok" THEN c
    ELSE With(Note(c, "file", get_token_text(c, c.ret), <<c.ret.from, Len(c.code)>>, NoIns),
              LAMBDA n :
                 IF c.ret.kind # Kind("Fn") THEN Err(n, "UnexpectedToken", c.ret)
                 ELSE self("function_body", n, <<>>))

\* The `while` of source: returns has_main.
source_loop(c, has_main) ==
    With(Compiler_peek(c), LAMBDA k :
        IF k.res # "Ok" THEN k
        ELSE IF k.ret.kind = Kind("EOF") THEN Return(k, has_main)
        ELSE With(source_function(Compiler_pop(k)), LAMBDA f :
                 IF f.res # "Ok" THEN f ELSE self("source_loop", f, <<has_main \/ f.ret>>)))

\* The methods that call one another, by name.
self(method, c, a) ==
    CASE method = "expr" -> expr(c)
      [] method = "property" -> property(c)
      [] method = "expr_p" -> expr_p(c, a[1])
      [] method = "expr_loop" -> expr_loop(c, a[1], a[2])
      [] method = "explist" -> explist(c, a[1])
      [] method = "explist_loop" -> explist_loop(c, a[1], a[2])
      [] method = "assign_loop" -> assign_loop(c, a[1])
      [] method = "assign_call" -> assign_call(c)
      [] method = "var_decl" -> var_decl(c)
      [] method = "let_loop" -> let_loop(c)
      [] method = "skip_loop" -> skip_loop(c)
      [] method = "stmt" -> stmt(c)
      [] method = "block_loop" -> block_loop(c, a[1])
      [] method = "block" -> block(c, a[1])
      [] method = "param_loop" -> param_loop(c, a[1])
      [] method = "paramlist" -> paramlist(c)
      [] method = "function_body" -> function_body(c)
      [] method = "source_loop" -> source_loop(c, a[1])

\* Compiler::source
source(c) ==
    With(self("source_loop", c, <<FALSE>>), LAMBDA l :
        IF l.res # "Ok" THEN l
        ELSE IF l.ret THEN Return(Compiler_pop(l), <<>>)
        ELSE [Compiler_pop(l) EXCEPT !.res = IF @ = "Ok" THEN "NoMainFunction" ELSE @])

\* Compiler::compile
compile(c) == source(c)

\* ------------------------------------------------------ programs to run

\* A function of a program: its parameter count and its body.
Fn(p, body) == [p |-> p, body |-> body]

\* load 0, load 1, <op>, ret: the operator applied to the two arguments.
BinaryBody(op) == <<I1(ILOAD, 0), I1(ILOAD, 1), I0(op), I0(IRET)>>

BinaryOps == <<IADD, ISUB, IMULT, IDIV, IMOD, IEQ, INE, IGE, ILE, IGT, ILT, IGET>>

\* "ops": one two-parameter function per binary instruction.
OpsFuncs == [k \in 1..Len(BinaryOps) |-> Fn(2, BinaryBody(BinaryOps[k]))]

\* "arr": functions on arrays they build from their arguments.
ArrFuncs ==
    << \* [a0, 7][a1] = a2
       Fn(3, <<I1(ILOAD, 0), I1(IKONST, 0), I1(IANEW, 2), I1(ILOAD, 1), I1(ILOAD, 2),
               I0(ISET), I0(IRET)>>),
       \* [a0, a1][a2]
       Fn(3, <<I1(ILOAD, 0), I1(ILOAD, 1), I1(IANEW, 2), I1(ILOAD, 2), I0(IGET),
               I0(IRET)>>),
       \* [a0] == [a1], two arrays
       Fn(2, <<I1(ILOAD, 0), I1(IANEW, 1), I1(ILOAD, 1), I1(IANEW, 1), I0(IEQ),
               I0(IRET)>>),
       \* [a0] != [a1], two arrays
       Fn(2, <<I1(ILOAD, 0), I1(IANEW, 1), I1(ILOAD, 1), I1(IANEW, 1), I0(INE),
               I0(IRET)>>),
       \* x = [a0]; x == x, one array
       Fn(1, <<I1(ILOAD, 0), I1(IANEW, 1), I1(ISTORE, 0), I1(ILOAD, 0), I1(ILOAD, 0),
               I0(IEQ), I0(IRET)>>),
       \* [[a0]] == [[a1]], nested arrays
       Fn(2, <<I1(ILOAD, 0), I1(IANEW, 1), I1(IANEW, 1), I1(ILOAD, 1), I1(IANEW, 1),
               I1(IANEW, 1), I0(IEQ), I0(IRET)>>),
       \* [] == [a0]
       Fn(1, <<I1(IANEW, 0), I1(ILOAD, 0), I1(IANEW, 1), I0(IEQ), I0(IRET)>>) >>

\* "call": callees of 0, 1 and 2 parameters and callers passing 0 to 2 arguments.
CallConsts == <<Num(5), Num(7)>>
Callees ==
    << Fn(0, <<I1(IKONST, 0), I0(IRET)>>),
       Fn(1, <<I1(ILOAD, 0), I0(IRET)>>),
       Fn(2, <<I1(ILOAD, 0), I1(ILOAD, 1), I1(IANEW, 2), I0(IRET)>>) >>
\* konst callee, konst 0 .. konst argc-1, call argc, ret
Caller(callee, argc) ==
    Fn(0, <<I1(IKONST, Len(CallConsts) + callee - 1)>>
          \o [i \in 1..argc |-> I1(IKONST, i - 1)]
          \o <<I1(ICALL, argc), I0(IRET)>>)
CallFuncs ==
    Callees
    \o <<Caller(1, 0), Caller(1, 1), Caller(1, 2), Caller(2, 0), Caller(2, 1), Caller(2, 2),
         Caller(3, 0), Caller(3, 1), Caller(3, 2)>>
    \o << \* 5(7): konst 0, konst 1, call 1, ret
          Fn(0, <<I1(IKONST, 0), I1(IKONST, 1), I1(ICALL, 1), I0(IRET)>>),
          \* nil, true, false, pop(2), store(0), load(0), ret
          Fn(1, <<I0(INIL), I0(ITRUE), I0(IFALSE), I1(IPOP, 2), I1(ISTORE, 0),
                  I1(ILOAD, 0), I0(IRET)>>),
          \* a body that ends without ret, at the end of bin
          Fn(0, <<I0(INIL)>>) >>

\* "nat": the natives as constants 0..3, and functions that call them.
NatConsts ==
    <<Native(1, "bakht_len"), Native(2, "bakht_push"), Native(1, "bakht_pop"),
      Native(1, "bakht_print")>>
NatFuncs ==
    << \* len([a0, a0])
       Fn(1, <<I1(IKONST, 0), I1(ILOAD, 0), I1(ILOAD, 0), I1(IANEW, 2), I1(ICALL, 1),
               I0(IRET)>>),
       \* push([a0], a0)
       Fn(1, <<I1(IKONST, 1), I1(ILOAD, 0), I1(IANEW, 1), I1(ILOAD, 0), I1(ICALL, 2),
               I0(IRET)>>),
       \* pop([a0]), and pop([]) with no argument
       Fn(1, <<I1(IKONST, 2), I1(ILOAD, 0), I1(IANEW, 1), I1(ICALL, 1), I0(IRET)>>),
       Fn(0, <<I1(IKONST, 2), I1(IANEW, 0), I1(ICALL, 1), I0(IRET)>>),
       \* print(a0)
       Fn(1, <<I1(IKONST, 3), I1(ILOAD, 0), I1(ICALL, 1), I0(IRET)>>) >>

ProgramNames == {"ops", "arr", "call", "nat"}

\* The constants, the functions and the values the host passes to them.
Program(name) ==
    CASE name = "ops" ->
           [consts |-> <<>>, funcs |-> OpsFuncs,
            vals |-> {Nil, Num(0), Num(1), Num(2), String(<<"a", "b">>), String(<<"b">>)}]
      [] name = "arr" ->
           [consts |-> <<Num(7)>>, funcs |-> ArrFuncs,
            vals |-> {Num(-1), Num(0), Num(1), Num(2)}]
      [] name = "call" ->
           [consts |-> CallConsts, funcs |-> CallFuncs, vals |-> {Num(1), Num(2)}]
      [] name = "nat" ->
           [consts |-> NatConsts, funcs |-> NatFuncs, vals |-> {Num(1)}]

RECURSIVE EmitAll(_, _)
EmitAll(m, body) ==
    IF m.halt # "none" \/ body = <<>> THEN m ELSE EmitAll(emit(m, Head(body)), Tail(body))

RECURSIVE DefineConsts(_, _)
DefineConsts(m, consts) ==
    IF m.halt # "none" \/ consts = <<>> THEN m
    ELSE DefineConsts(IF Head(consts).t = "String"
                      THEN rodata_literal(m, Head(consts).s)[1]
                      ELSE IF Head(consts).t = "Function"
                      THEN rodata_native(m, Head(consts).func, Head(consts).param_count)[1]
                      ELSE rodata_number(m, Head(consts))[1], Tail(consts))

RECURSIVE DefineFuncs(_, _)
DefineFuncs(m, funcs) ==
    IF m.halt # "none" \/ funcs = <<>> THEN m
    ELSE DefineFuncs(EmitAll(rodata_function(m, Head(funcs).p, FALSE)[1], Head(funcs).body),
                     Tail(funcs))

\* The calls of the VM trait that write a program into the BVM: the constants, then
\* per function rodata_function and the emit of its body.
Assemble(m, P) == DefineFuncs(DefineConsts(m, P.consts), P.funcs)

\* ----------------------------------------------------------- the VM at work

\* The running invocations of BVM::process, innermost last, are kept in `procs`: for
\* each, the stack its i_call found below the callee.
CallerStack(m, argc) == SubSeq(m.stack, 1, sp(m) - 1 - argc)

FunctionsOnStack(m) == {i \in 1..Len(m.stack) : m.stack[i].t = "Function"}

HostIdle == procs = <<>> /\ vm.halt = "none"

\* The host writes a program into a fresh BVM.
Load ==
    /\ HostIdle
    /\ prog = "none"
    /\ \E name \in ProgramNames :
         /\ prog' = name
         /\ vm' = Assemble(vm, Program(name))
    /\ UNCHANGED <<procs, last, calls, emitted, fetched, src, comp>>

\* A value of the host's own that it leaves below the callee.
CallerValue == String(<<"x">>)

\* BVM::push by the host: its own value on the empty stack, then the callee (a
\* function value it holds), then the arguments.
HostPush ==
    /\ HostIdle
    /\ prog # "none"
    /\ calls = <<>>
    /\ \E v \in Program(prog).vals \cup {CallerValue}
                \cup {c \in Range(vm.constants) : c.t = "Function"} :
         /\ IF FunctionsOnStack(vm) = {}
            THEN IF v.t = "Function" THEN TRUE ELSE v = CallerValue /\ sp(vm) = 0
            ELSE /\ v # CallerValue /\ v.t # "Function"
                 /\ Cardinality(FunctionsOnStack(vm)) = 1
                 /\ sp(vm) - (CHOOSE i \in FunctionsOnStack(vm) : TRUE) < MaxArgs
         /\ vm' = push(vm, v)
    /\ UNCHANGED <<procs, last, prog, calls, emitted, fetched, src, comp>>

\* BVM::pop by the host, before its call.
HostPop ==
    /\ HostIdle
    /\ calls = <<>>
    /\ vm.stack # <<>>
    /\ vm' = pop(vm)[1]
    /\ UNCHANGED <<procs, last, prog, calls, emitted, fetched, src, comp>>

\* BVM::fcall, once after a load; `calls` keeps its argc.
Fcall ==
    /\ HostIdle
    /\ prog \notin {"none", "failed"}
    /\ calls = <<>>
    /\ \E argc \in 0..MaxArgs, wrap \in BOOLEAN :
         /\ argc < sp(vm)
         /\ vm' = i_call(vm, argc, wrap)
         /\ procs' = IF CallEntersProcess(vm, argc, wrap)
                     THEN <<CallerStack(vm, argc)>> ELSE <<>>
         /\ last' = LastOf(ICALL, Word(argc), vm, <<>>)
         /\ calls' = Append(calls, argc)
    /\ UNCHANGED <<prog, emitted, fetched, src, comp>>

\* BVM::reset
Reset ==
    /\ HostIdle
    /\ prog # "none"
    /\ vm' = reset(vm)
    /\ prog' = "none"
    /\ calls' = <<>>
    /\ last' = NoLast
    /\ src' = <<>>
    /\ comp' = None
    /\ UNCHANGED <<procs, emitted, fetched>>

\* The loop of BVM::process is about to run its body.
Running == procs # <<>> /\ vm.halt = "none" /\ vm.error = "None"

\* What fetch leaves and returns in the current state, and its operand.
Fetched == fetch(vm)[1]
Operand == WordToNat(fetch(vm)[3])

\* One turn of the loop of BVM::process for the opcode `opc`: fetch, the handler
\* (`after` is the VM it leaves), and the break after ret (`leave`).
Turn(opc, after, leave) ==
    /\ LET f == fetch(vm)
       IN  /\ f[1].halt = "none"
           /\ f[2] = opc
           /\ vm' = after
           /\ last' = LastOf(opc, f[3], vm, IF leave THEN procs[Len(procs)] ELSE <<>>)
    /\ procs' = IF leave THEN SubSeq(procs, 1, Len(procs) - 1) ELSE procs
    /\ UNCHANGED <<prog, calls, emitted, fetched, src, comp>>

P_add == Running /\ Turn(IADD, i_add(Fetched), FALSE)
P_sub == Running /\ Turn(ISUB, i_sub(Fetched), FALSE)
P_mult == Running /\ Turn(IMULT, i_mult(Fetched), FALSE)
P_div == Running /\ Turn(IDIV, i_div(Fetched), FALSE)
P_eq == Running /\ Turn(IEQ, i_eq(Fetched), FALSE)
P_ne == Running /\ Turn(INE, i_ne(Fetched), FALSE)
P_ge == Running /\ Turn(IGE, i_ge(Fetched), FALSE)
P_le == Running /\ Turn(ILE, i_le(Fetched), FALSE)
P_gt == Running /\ Turn(IGT, i_gt(Fetched), FALSE)
P_lt == Running /\ Turn(ILT, i_lt(Fetched), FALSE)
P_set == Running /\ Turn(ISET, i_set(Fetched), FALSE)
P_get == Running /\ Turn(IGET, i_get(Fetched), FALSE)
P_pop == Running /\ Turn(IPOP, i_pop(Fetched, Operand), FALSE)
P_ret == Running /\ Turn(IRET, i_ret(Fetched), TRUE)
P_load == Running /\ Turn(ILOAD, i_load(Fetched, Operand), FALSE)
P_store == Running /\ Turn(ISTORE, i_store(Fetched, Operand), FALSE)
P_konst == Running /\ Turn(IKONST, i_konst(Fetched, Operand), FALSE)
P_nil == Running /\ Turn(INIL, i_nil(Fetched), FALSE)
P_true == Running /\ Turn(ITRUE, i_true(Fetched), FALSE)
P_false == Running /\ Turn(IFALSE, i_false(Fetched), FALSE)
P_anew == Running /\ Turn(IANEW, i_anew(Fetched, Operand), FALSE)
P_mod == Running /\ Turn(IMOD, i_mod(Fetched), FALSE)

\* The call instruction: i_call, which runs a nested BVM::process for a Bakht callee.
P_call ==
    /\ Running
    /\ \E wrap \in BOOLEAN :
         LET f == fetch(vm)
             argc == WordToNat(f[3])
         IN  /\ f[1].halt = "none"
             /\ f[2] = ICALL
             /\ vm' = i_call(f[1], argc, wrap)
             /\ procs' = IF CallEntersProcess(f[1], argc, wrap)
                         THEN Append(procs, CallerStack(f[1], argc)) ELSE procs
             /\ last' = LastOf(ICALL, f[3], vm, <<>>)
    /\ UNCHANGED <<prog, calls, emitted, fetched, src, comp>>

KnownOps == OperandOps \cup PlainOps

\* A fetch that reads past the end of bin, or the `_ => panic!()` arm of process.
P_panic ==
    /\ Running
    /\ LET f == fetch(vm)
       IN  /\ f[1].halt # "none" \/ f[2] \notin KnownOps
           /\ vm' = Panic(f[1])
           /\ last' = LastOf(f[2], f[3], vm, <<>>)
    /\ UNCHANGED <<procs, prog, calls, emitted, fetched, src, comp>>

\* A process that clears the error slot as it returns.
P_exitClearing ==
    /\ procs # <<>>
    /\ vm.halt = "none"
    /\ vm.error # "None"
    /\ procs' = SubSeq(procs, 1, Len(procs) - 1)
    /\ vm' = [vm EXCEPT !.error = "None"]
    /\ UNCHANGED <<last, prog, calls, emitted, fetched, src, comp>>

\* `while self.error.is_none()` fails: this BVM::process returns to its caller.
P_exit ==
    /\ procs # <<>>
    /\ vm.halt = "none"
    /\ vm.error # "None"
    /\ procs' = SubSeq(procs, 1, Len(procs) - 1)
    /\ UNCHANGED <<vm, last, prog, calls, emitted, fetched, src, comp>>

InitVM ==
    /\ vm = BVM_default
    /\ procs = <<>>
    /\ last = NoLast
    /\ prog = "none"
    /\ calls = <<>>
    /\ emitted = <<>>
    /\ fetched = <<>>
    /\ src = <<>>
    /\ comp = None

NextVM ==
    \/ Load \/ HostPush \/ HostPop \/ Fcall \/ Reset
    \/ P_add \/ P_sub \/ P_mult \/ P_div \/ P_eq \/ P_ne \/ P_ge \/ P_le \/ P_gt \/ P_lt
    \/ P_set \/ P_get \/ P_pop \/ P_ret \/ P_load \/ P_store \/ P_call \/ P_konst
    \/ P_nil \/ P_true \/ P_false \/ P_anew \/ P_mod \/ P_panic \/ P_exit

SpecVM == InitVM /\ [][NextVM]_vars

\* ------------------------------------------------------ programs to compile

\* fn main() { <body> }
Main(body) ==
    Chars(<<"fn", " ", "main", "(", ")", " ", "{", " ">> \o body \o <<" ", "}">>)

\* fn add(a, b) { return a + b } fn main() { return add(2, 5) }
AddSource ==
    Chars(<<"fn", " ", "add", "(", "a", ",", " ", "b", ")", " ", "{", " ",
            "return", " ", "a", " ", "+", " ", "b", " ", "}", "\n">>)
    \o Main(<<"return", " ", "add", "(", "2", ",", " ", "5", ")">>)

\* fn f(a) { a = 5 return a } fn main() { return f(1) }
StoreSource ==
    Chars(<<"fn", " ", "f", "(", "a", ")", " ", "{", " ", "a", " ", "=", " ", "5", " ",
            "return", " ", "a", " ", "}", "\n">>)
    \o Main(<<"return", " ", "f", "(", "1", ")">>)

\* fn main() { let xs = [10, 20, 30] return xs[1] }
IndexSource ==
    Main(<<"let", " ", "xs", " ", "=", " ", "[", "10", ",", " ", "20", ",", " ", "30", "]",
           " ", "return", " ", "xs", "[", "1", "]">>)

\* fn main() { return <literal> }
Literals == {"'hi'", "''", "'a'"}
LiteralSource(literal) == Main(<<"return", " ", literal>>)

\* fn main() { return <a> <op> <b> }
InfixOperators == {"+", "-", "*", "/", "%", "==", "!=", "<=", ">=", "<", ">"}
InfixOperands == {"1", "2", "'a'", "'b'", "nil"}
InfixSource(a, op, b) == Main(<<"return", " ", a, " ", op, " ", b>>)

\* fn main() { let b = 1 return <expression> }, the expression over b, 1 and 5:
\* b o1 1 o2 5, (b o1 1) o2 5, and (b o1 1) alone.
ExprOperators == {"+", "-", "*", "%", "=="}
ExprForms == {"flat", "left", "group"}
ExprSource(form, o1, o2) ==
    Main(<<"let", " ", "b", " ", "=", " ", "1", " ", "return", " ">>
         \o CASE form = "flat" -> <<"b", " ", o1, " ", "1", " ", o2, " ", "5">>
              [] form = "left" -> <<"(", "b", " ", o1, " ", "1", ")", " ", o2, " ", "5">>
              [] form = "group" -> <<"(", "b", " ", o1, " ", "1", ")">>)
ExprSources == {ExprSource(form, o1, o2) : form \in ExprForms, o1 \in ExprOperators,
                                           o2 \in ExprOperators}

\* fn main() { let a a[0][1] = 2 }: an assignment to an index of an index
ChainSetSource ==
    Main(<<"let", " ", "a", " ", "a", "[", "0", "]", "[", "1", "]", " ", "=", " ", "2">>)

\* fn main() { let a a[0](1) }: a call of an index
ChainCallSource == Main(<<"let", " ", "a", " ", "a", "[", "0", "]", "(", "1", ")">>)

\* fn main() { (1)()[0] = 2 }: an assignment to an index of a call of a parenthesis
ChainValueSource == Main(<<"(", "1", ")", "(", ")", "[", "0", "]", " ", "=", " ", "2">>)

\* fn main() { let a a.b = 1 }: an assignment to a property
ChainDotSource == Main(<<"let", " ", "a", " ", "a", ".", "b", " ", "=", " ", "1">>)

\* fn main() { if true { } }: an if statement
IfSource == Main(<<"if", " ", "true", " ", "{", " ", "}">>)

\* fn f() { let a } fn h() { return 1 } fn main() { return f() }: a body without
\* return before another function
ThroughSource ==
    Chars(<<"fn", " ", "f", "(", ")", " ", "{", " ", "let", " ", "a", " ", "}", " ",
            "fn", " ", "h", "(", ")", " ", "{", " ", "return", " ", "1", " ", "}", " ">>)
    \o Main(<<"return", " ", "f", "(", ")">>)

\* fn f(a) { return 1 } fn main() { let b = 2 return b }: a local of a function
\* that follows one with a parameter
AfterSource ==
    Chars(<<"fn", " ", "f", "(", "a", ")", " ", "{", " ", "return", " ", "1", " ", "}",
            " ">>)
    \o Main(<<"let", " ", "b", " ", "=", " ", "2", " ", "return", " ", "b">>)

OtherSources ==
    { \* fn main() { let a = 1 + 2 * 3 return a }
      Main(<<"let", " ", "a", " ", "=", " ", "1", " ", "+", " ", "2", " ", "*", " ", "3",
             " ", "return", " ", "a">>),
      \* fn main() { let a = 1 { let b = 2 a = b } return -a }
      Main(<<"let", " ", "a", " ", "=", " ", "1", " ", "{", " ", "let", " ", "b", " ", "=",
             " ", "2", " ", "a", " ", "=", " ", "b", " ", "}", " ", "return", " ", "-",
             "a">>),
      \* fn main() { let xs = [1, 2] xs[0] = 5 return xs }
      Main(<<"let", " ", "xs", " ", "=", " ", "[", "1", ",", " ", "2", "]", " ",
             "xs", "[", "0", "]", " ", "=", " ", "5", " ", "return", " ", "xs">>),
      \* fn main() { let a, b = true return a.b }
      Main(<<"let", " ", "a", ",", " ", "b", " ", "=", " ", "true", " ",
             "return", " ", "a", ".", "b">>),
      \* fn f() { return nil } fn main() { f() return false }
      Chars(<<"fn", " ", "f", "(", ")", " ", "{", " ", "return", " ", "nil", " ", "}", " ">>)
      \o Main(<<"f", "(", ")", " ", "return", " ", "false">>),
      \* a comment, then fn main() { return (1) }
      Chars(<<"#", " ", "a", "\n">>) \o Main(<<"return", " ", "(", "1", ")">>),
      \* fn main() { let a = 1 }: no return
      Main(<<"let", " ", "a", " ", "=", " ", "1">>),
      \* fn main() { return x }: an unknown identifier
      Main(<<"return", " ", "x">>),
      \* fn main() { let a let a }: a name declared twice
      Main(<<"let", " ", "a", " ", "let", " ", "a">>),
      \* fn f() { } fn main() { f = 1 }: assignment to a global
      Chars(<<"fn", " ", "f", "(", ")", " ", "{", " ", "}", " ">>)
      \o Main(<<"f", " ", "=", " ", "1">>),
      \* fn f() { return 1 }: no main
      Chars(<<"fn", " ", "f", "(", ")", " ", "{", " ", "return", " ", "1", " ", "}">>),
      \* let a = 1: a statement at file scope
      Chars(<<"let", " ", "a", " ", "=", " ", "1">>),
      \* the empty text
      <<>>,
      \* fn main() { return _a }: an identifier that starts with '_'
      Main(<<"return", " ", "_", "a">>),
      \* fn main() { return 'a }: a literal without its closing quote
      Main(<<"return", " ", "'", "a">>),
      \* fn main() { let a = 1 { let a = 2 } return a }: a name of an outer scope
      Main(<<"let", " ", "a", " ", "=", " ", "1", " ", "{", " ", "let", " ", "a", " ", "=",
             " ", "2", " ", "}", " ", "return", " ", "a">>),
      \* fn f() { } fn f() { } fn main() { }: a function declared twice
      Chars(<<"fn", " ", "f", "(", ")", " ", "{", " ", "}", " ",
              "fn", " ", "f", "(", ")", " ", "{", " ", "}", " ">>) \o Main(<<>>),
      \* fn f(a, a) { } fn main() { }: a parameter declared twice
      Chars(<<"fn", " ", "f", "(", "a", ",", " ", "a", ")", " ", "{", " ", "}", " ">>)
      \o Main(<<>>),
      \* fn main() { x = 1 }: assignment to an unknown identifier
      Main(<<"x", " ", "=", " ", "1">>),
      \* fn f(a) { } fn h(a) { } fn main() { }: two functions with a parameter a
      Chars(<<"fn", " ", "f", "(", "a", ")", " ", "{", " ", "}", " ",
              "fn", " ", "h", "(", "a", ")", " ", "{", " ", "}", " ">>) \o Main(<<>>),
      \* 1 + 2: an expression at file scope
      Chars(<<"1", " ", "+", " ", "2">>),
      \* fn main() { } let a: a statement after a function
      Main(<<>>) \o Chars(<<" ", "let", " ", "a">>),
      \* fn main() { }: an empty body
      Main(<<>>),
      \* fn f(a) { return a }: a function with a parameter, no main
      Chars(<<"fn", " ", "f", "(", "a", ")", " ", "{", " ", "return", " ", "a", " ", "}">>),
      \* fn main(a, b) { return b }: a main with parameters
      Chars(<<"fn", " ", "main", "(", "a", ",", " ", "b", ")", " ", "{", " ",
              "return", " ", "b", " ", "}">>),
      \* fn main() { return a_b }: an identifier with '_' inside
      Main(<<"return", " ", "a", "_", "b">>),
      \* fn main() { let a, b a = b { } b = a }: each local read and written, and
      \* a block without declarations
      Main(<<"let", " ", "a", ",", " ", "b", " ", "a", " ", "=", " ", "b", " ",
             "{", " ", "}", " ", "b", " ", "=", " ", "a">>),
      \* fn main() { (1) = 2 }: assignment to a parenthesis
      Main(<<"(", "1", ")", " ", "=", " ", "2">>),
      \* fn main() { let a a() = 1 }: assignment to a call
      Main(<<"let", " ", "a", " ", "a", "(", ")", " ", "=", " ", "1">>),
      \* fn main() { let a a }: a statement that is a name
      Main(<<"let", " ", "a", " ", "a">>),
      \* fn main() { let a a[0] }: a statement that ends in an index
      Main(<<"let", " ", "a", " ", "a", "[", "0", "]">>),
      \* fn main() { [1] }: a statement that is an array
      Main(<<"[", "1", "]">>),
      ChainSetSource, ChainCallSource, ChainValueSource, ChainDotSource, IfSource,
      ThroughSource, AfterSource }

Sources ==
    {AddSource, StoreSource, IndexSource}
    \cup {LiteralSource(l) : l \in Literals}
    \cup {InfixSource(a, op, b) : a \in InfixOperands, op \in InfixOperators,
                                  b \in InfixOperands}
    \cup ExprSources
    \cup OtherSources

\* The host compiles a text into the fresh BVM, as `check` of tests.rs does with its
\* VM: Scanner::new, Compiler::new, compile, vm.  `comp` keeps what compile returned
\* and what the compiler noted; a process that ended in compile leaves no VM to
\* use (halt).
Compile ==
    /\ HostIdle
    /\ prog = "none"
    /\ \E text \in Sources :
         LET c == compile(Compiler_new(text, Scanner_new(text), vm))
         IN  /\ src' = text
             /\ comp' = [res |-> c.res, tok |-> c.tok, code |-> c.code, notes |-> c.notes,
                         scopes |-> c.scopes, offset |-> c.offset]
             /\ vm' = IF c.res \in {"exit", "panic", "hang"}
                      THEN [c.vm EXCEPT !.halt = c.res] ELSE c.vm
             /\ prog' = IF c.res = "Ok" THEN "source" ELSE "failed"
    /\ UNCHANGED <<procs, last, calls, emitted, fetched>>

\* The compiler emits neither lt nor gt (compile_operator reaches them under
\* TokenKind::Double only, and no Double token has the text "<" or ">"), so the
\* turns of process for ILT and IGT are not among the steps of a compiled program.
NextComp ==
    \/ Compile \/ Fcall \/ Reset
    \/ P_add \/ P_sub \/ P_mult \/ P_div \/ P_eq \/ P_ne \/ P_ge \/ P_le
    \/ P_set \/ P_get \/ P_pop \/ P_ret \/ P_load \/ P_store \/ P_call \/ P_konst
    \/ P_nil \/ P_true \/ P_false \/ P_anew \/ P_mod \/ P_panic \/ P_exit

SpecComp == InitVM /\ [][NextComp]_vars

\* BVM::process is sequential code: when its loop condition fails, it returns.
SpecCompFair == SpecComp /\ WF_vars(P_exit)

\* ------------------------------------------------ what the last turn did

\* The stack before the last instruction, its top, and what lay below its top n.
PreStack == last.pre.stack
PreTop(k) == PreStack[Len(PreStack) - k]
PreBelow(n) == SubSeq(PreStack, 1, Len(PreStack) - n)
LastArgc == WordToNat(last.arg)

\* The last instruction was a call (by the host or by a call instruction) whose
\* callee slot held a Bakht function.
LastCalledBakht ==
    /\ last.op = ICALL
    /\ Len(PreStack) >= 1 + LastArgc
    /\ PreTop(LastArgc).t = "Function"
    /\ PreTop(LastArgc).k = "Bakht"

\* C3: call(argc) on a Bakht function of p parameters, for every argc and p, leaves
\* exactly p argument values (missing ones Nil, surplus ones dropped) and pushes a
\* frame with ip = address and bp = sp - p, so the slots bp .. bp+p-1 hold the first
\* min(argc, p) arguments in order, then Nil.
C3_CallFrame ==
    LastCalledBakht =>
        LET callee == PreTop(LastArgc)
            p == callee.param_count
            base == Len(PreStack) - 1 - LastArgc
            args == SubSeq(PreStack, base + 2, Len(PreStack))
        IN  /\ vm.halt = "none"
            /\ Len(vm.frames) = Len(last.pre.frames) + 1
            /\ ip(vm) = callee.address
            /\ sp(vm) = base + p
            /\ bp(vm) = sp(vm) - p
            /\ \A i \in 1..p : vm.stack[bp(vm) + i] = (IF i <= LastArgc THEN args[i] ELSE Nil)

\* C4: when a call of a Bakht function returns through ret without a fault, the
\* stack holds the values that lay below the callee, unchanged, and above them
\* exactly one value, the returned one.
C4_RetBalance ==
    (last.op = IRET /\ vm.halt = "none" /\ vm.error = "None")
        => vm.stack = Append(last.base, PreTop(0))

\* The last instruction was a set of element `idx` of an array that has it.
LastSetInRange ==
    /\ last.op = ISET
    /\ Len(PreStack) >= 3
    /\ PreTop(2).t = "Array"
    /\ PreTop(1).t = "Number"
    /\ PreTop(1).d = 1
    /\ PreTop(1).n >= 0
    /\ PreTop(1).n < Len(last.pre.heap[PreTop(2).ref])

\* C5: set(a, i, v) with a valid index completes without fault or abort, leaves
\* a[i] = v, every other element and the length unchanged, and pushes a back.
C5_SetValid ==
    LastSetInRange =>
        LET a == PreTop(2).ref
            i == PreTop(1).n
        IN  /\ vm.halt = "none"
            /\ vm.error = "None"
            /\ vm.heap = [last.pre.heap EXCEPT ![a][i + 1] = PreTop(0)]
            /\ vm.stack = Append(PreBelow(3), PreTop(2))

\* The orders the comparison instructions are named after, on fractions and on
\* strings (a is less than b when it is a proper prefix of b or smaller at the
\* first position where they differ).
FracLess(a, b) == a.n * b.d < b.n * a.d
LexLess(a, b) ==
    \E k \in 1..Len(b) :
        /\ \A j \in 1..(k - 1) : j <= Len(a) /\ a[j] = b[j]
        /\ k > Len(a) \/ (k <= Len(a) /\ CharCode(a[k]) < CharCode(b[k]))
Less(a, b) == IF a.t = "Number" THEN FracLess(a, b) ELSE LexLess(a.s, b.s)
Named(op, a, b) ==
    CASE op = ILT -> Less(a, b)
      [] op = ILE -> ~Less(b, a)
      [] op = IGT -> Less(b, a)
      [] op = IGE -> ~Less(a, b)

\* C7: on two numbers or two strings lt, le, gt, ge push Boolean(a < b), (a <= b),
\* (a > b), (a >= b), a pushed first; any other pair of operands sets InvalidOperands.
C7_Compare ==
    (last.op \in {ILT, ILE, IGT, IGE} /\ Len(PreStack) >= 2) =>
        LET a == PreTop(1)
            b == PreTop(0)
        IN  IF BothNumbers(a, b) \/ BothStrings(a, b)
            THEN /\ vm.error = "None"
                 /\ vm.stack = Append(PreBelow(2), Boolean(Named(last.op, a, b)))
            ELSE vm.error = "InvalidOperands"

\* A value with every array in it replaced by its elements.
RECURSIVE Deep(_, _)
Deep(heap, v) ==
    IF v.t = "Array"
    THEN [t |-> "Array", elems |-> [i \in 1..Len(heap[v.ref]) |-> Deep(heap, heap[v.ref][i])]]
    ELSE v

LastComparedArrays ==
    /\ last.op \in {IEQ, INE}
    /\ Len(PreStack) >= 2
    /\ PreTop(0).t = "Array"
    /\ PreTop(1).t = "Array"

LastComparedStrings ==
    /\ last.op \in {IEQ, INE}
    /\ Len(PreStack) >= 2
    /\ PreTop(0).t = "String"
    /\ PreTop(1).t = "String"

\* C8 as stated: eq on two arrays pushes true exactly when both are the same shared
\* array (ne the negation); strings compare by content.
C8_ArrayIdentity ==
    /\ LastComparedArrays =>
         vm.stack = Append(PreBelow(2),
                           Boolean((PreTop(1).ref = PreTop(0).ref) <=> (last.op = IEQ)))
    /\ LastComparedStrings =>
         vm.stack = Append(PreBelow(2), Boolean((PreTop(1).s = PreTop(0).s) <=> (last.op = IEQ)))

\* C8 amended: eq on two arrays pushes true exactly when they have the same length
\* and equal elements at every index, arrays among the elements compared the same
\* way, whether or not the two are the same shared array (ne the negation); strings
\* compare by content.
C8_ArrayContent ==
    /\ LastComparedArrays =>
         vm.stack = Append(PreBelow(2),
                           Boolean((Deep(last.pre.heap, PreTop(1)) = Deep(last.pre.heap, PreTop(0)))
                                   <=> (last.op = IEQ)))
    /\ LastComparedStrings =>
         vm.stack = Append(PreBelow(2), Boolean((PreTop(1).s = PreTop(0).s) <=> (last.op = IEQ)))

\* Two distinct arrays of equal contents were compared with eq, and true was pushed.
C8_Witness ==
    /\ LastComparedArrays
    /\ last.op = IEQ
    /\ PreTop(1).ref # PreTop(0).ref
    /\ last.pre.heap[PreTop(1).ref] # <<>>
    /\ vm.stack[Len(vm.stack)] = Boolean(TRUE)

\* ------------------------------------------------------------ what compile did

\* A text has been compiled into the VM, and the host's one call of main, without
\* arguments, has returned.
Compiled == prog \in {"source", "failed"}
MainReturned == prog = "source" /\ calls = <<0>> /\ procs = <<>> /\ vm.halt = "none"

\* The notes of compile of the given kind.
Notes(what) == {comp.notes[i] : i \in {j \in DOMAIN comp.notes : comp.notes[j].what = what}}

\* C2: the i-th formal parameter of a function (from 0) is bound to local slot i:
\* every use of it in the body compiles to load(i) and every assignment to it to
\* store(i), never to konst or to an Immutable error; so add(2, 5) of
\* fn add(a, b) { return a + b } returns Number(7).
C2_Params ==
    /\ Compiled =>
         /\ \A note \in Notes("load") : note.n >= 0 => note.ins = I1(ILOAD, note.n)
         /\ \A note \in Notes("store") : note.n >= 0 => note.ins = I1(ISTORE, note.n)
    /\ (src = AddSource /\ MainReturned) =>
         /\ vm.error = "None"
         /\ vm.stack # <<>>
         /\ vm.stack[Len(vm.stack)] = Num(7)

\* C6: an index suffix c[i] inside an expression compiles to the code of c, the
\* code of i, then get; so xs[1] with xs = [10, 20, 30] yields Number(20).
C6_IndexGet ==
    /\ Compiled => \A note \in Notes("index") : note.ins = I0(IGET)
    /\ (src = IndexSource /\ MainReturned) =>
         /\ vm.error = "None"
         /\ vm.stack # <<>>
         /\ vm.stack[Len(vm.stack)] = Num(20)

\* C9: the constant interned for a string literal token is the token's text
\* without its two surrounding quotes, of the token's length minus 2.
C9_LiteralStripped ==
    Compiled =>
        \A note \in Notes("literal") :
            /\ note.n < Len(vm.constants)
            /\ vm.constants[note.n + 1] = String(SubSeq(note.text, 2, Len(note.text) - 1))
            /\ Len(vm.constants[note.n + 1].s) = Len(note.text) - 2

\* The comparison operators and the opcodes they are named after.
ComparisonOperators == {"==", "!=", "<", ">", "<=", ">="}
Matching(op) ==
    CASE op = "==" -> IEQ [] op = "!=" -> INE [] op = "<" -> ILT
      [] op = ">" -> IGT [] op = "<=" -> ILE [] op = ">=" -> IGE

\* C10: each of ==, !=, <, >, <=, >= is accepted as an infix operator: for a OP b
\* compile returns normally and emits the code of a, the code of b, then the
\* opcode named after OP.
C10_Comparisons ==
    \A a \in InfixOperands, b \in InfixOperands, op \in ComparisonOperators :
        src = InfixSource(a, op, b) =>
            /\ comp.res = "Ok"
            /\ Len(comp.code) = 4
            /\ comp.code[3] = I0(Matching(op))
            /\ comp.code[4] = I0(IRET)

\* ------------------------------------------------------------ runtime faults

\* The values of the error slot other than None.
Faults == {"InvalidOperands", "DivisionByZero", "IndexOutOfBound", "CallingNonFunction"}

\* An instruction has recorded a fault and a BVM::process is still running.
Faulted == vm.error # "None" /\ vm.halt = "none" /\ procs # <<>>

\* C11: once an instruction has recorded a fault in the error slot, no further
\* instruction is fetched or executed, in the running loop of process or in an
\* enclosing one: each step only leaves the innermost process, the VM (its ip and
\* its error slot included) staying as it is, until control is back at the caller
\* of fcall with the error slot still holding the fault.
C11_FaultUnwinds ==
    /\ [][Faulted => /\ vm' = vm
                     /\ last' = last
                     /\ procs' = SubSeq(procs, 1, Len(procs) - 1)]_vars
    /\ \A e \in Faults :
         (Faulted /\ vm.error = e) ~> (procs = <<>> /\ vm.error = e /\ vm.halt = "none")

\* A fault recorded inside a nested script call has unwound to the caller of fcall.
C11_Witness ==
    /\ calls # <<>>
    /\ procs = <<>>
    /\ vm.error \in Faults
    /\ Len(last.pre.frames) >= 3

\* The last instruction was a div or a mod of two numbers.
LastDivided ==
    /\ last.op \in {IDIV, IMOD}
    /\ Len(PreStack) >= 2
    /\ BothNumbers(PreTop(1), PreTop(0))

\* r is the quotient of a by b: r * b = a.
IsQuotient(r, a, b) == r.n * b.n * a.d = a.n * b.d * r.d

\* r is the remainder of a by b: a - r is a whole multiple of b, r is smaller than
\* b in magnitude and has the sign of a.
IsRemainder(r, a, b) ==
    /\ \E k \in -(Abs(a.n) * b.d) .. (Abs(a.n) * b.d) :
         (a.n * r.d - r.n * a.d) * b.d = k * b.n * a.d * r.d
    /\ Abs(r.n) * b.d < Abs(b.n) * r.d
    /\ r.n * a.n >= 0

\* C12: div and mod of two numbers with a zero divisor set DivisionByZero and push
\* nothing; with a non-zero divisor they push the quotient or the remainder and set
\* no error.
C12_DivMod ==
    LastDivided =>
        LET a == PreTop(1)
            b == PreTop(0)
        IN  IF b.n = 0
            THEN /\ vm.error = "DivisionByZero"
                 /\ vm.stack = PreBelow(2)
            ELSE /\ vm.error = "None"
                 /\ Len(vm.stack) = Len(PreStack) - 1
                 /\ SubSeq(vm.stack, 1, Len(vm.stack) - 1) = PreBelow(2)
                 /\ vm.stack[Len(vm.stack)].t = "Number"
                 /\ vm.stack[Len(vm.stack)].d > 0
                 /\ IF last.op = IDIV THEN IsQuotient(vm.stack[Len(vm.stack)], a, b)
                    ELSE IsRemainder(vm.stack[Len(vm.stack)], a, b)

\* A non-zero number was divided by zero, and DivisionByZero was set.
C12_Witness ==
    /\ LastDivided
    /\ last.op = IDIV
    /\ PreTop(0).n = 0
    /\ PreTop(1).n # 0
    /\ vm.error = "DivisionByZero"

\* The last instruction was a get on an array or a string with a whole number.
LastIndexed ==
    /\ last.op = IGET
    /\ Len(PreStack) >= 2
    /\ PreTop(1).t \in {"Array", "String"}
    /\ PreTop(0).t = "Number"
    /\ PreTop(0).d = 1

\* The elements the last get indexed: the array's values, or the string's characters
\* as one-character strings.
LastIndexedElements ==
    IF PreTop(1).t = "Array" THEN last.pre.heap[PreTop(1).ref]
    ELSE [k \in 1..Len(PreTop(1).s) |-> String(<<PreTop(1).s[k]>>)]

\* C13: get with an index outside 0 .. len-1 (index = len and every negative index
\* included) sets IndexOutOfBound and pushes nothing; get with an index in range
\* pushes that element and sets no error.
C13_GetBounds ==
    LastIndexed =>
        LET i == PreTop(0).n
            elements == LastIndexedElements
        IN  IF i < 0 \/ i >= Len(elements)
            THEN /\ vm.error = "IndexOutOfBound"
                 /\ vm.stack = PreBelow(2)
            ELSE /\ vm.error = "None"
                 /\ vm.stack = Append(PreBelow(2), elements[i + 1])

\* ------------------------------------------------------ compile errors

\* C14: declaring a name (let variable, parameter or function) that its scope
\* already has makes compile return MultipleDefinition for that name; declaring a
\* name that only an outer scope has is accepted, as in
\* fn main() { let a = 1 { let a = 2 } return a }.
C14_MultipleDefinition ==
    Compiled =>
        /\ \A note \in Notes("decl") :
             note.n = 1 => comp.res = "MultipleDefinition"
        /\ (\A note \in Notes("decl") : note.n # 1) => comp.res # "MultipleDefinition"
        /\ src = Main(<<"let", " ", "a", " ", "=", " ", "1", " ", "{", " ", "let", " ", "a",
                        " ", "=", " ", "2", " ", "}", " ", "return", " ", "a">>)
             => /\ comp.res = "Ok"
                /\ \E note \in Notes("decl") : note.n = 2

\* C15: using or assigning an identifier that no scope of the scope stack binds
\* makes compile return UnknownIdentifier for that token, as for
\* fn main() { x = 1 } and fn main() { return x }.
C15_UnknownIdentifier ==
    Compiled =>
        /\ \A note \in Notes("unknown") :
             /\ comp.res = "UnknownIdentifier"
             /\ comp.tok # <<>>
             /\ TokenText(comp.tok[1], src) = note.text
        /\ src \in {Main(<<"x", " ", "=", " ", "1">>), Main(<<"return", " ", "x">>)}
             => comp.res = "UnknownIdentifier"

\* fn main() { let a = 1 { let b = 2 a = b } return -a }
BlockSource ==
    Main(<<"let", " ", "a", " ", "=", " ", "1", " ", "{", " ", "let", " ", "b", " ", "=",
           " ", "2", " ", "a", " ", "=", " ", "b", " ", "}", " ", "return", " ", "-", "a">>)

\* The store of a = b in the inner block reaches the slot of a: main returns -2.
C16_StoreReaches ==
    (src = BlockSource /\ MainReturned) =>
        /\ vm.error = "None"
        /\ vm.stack # <<>>
        /\ vm.stack[Len(vm.stack)] = Num(-2)

\* C16: an assignment whose target is a bare identifier that resolves in the global
\* scope (scope 0 of the stack) makes compile return Immutable for that token and
\* emits no store; one that resolves in an inner scope emits store(slot) with the
\* slot of that binding.
C16_Immutable ==
    /\ C16_StoreReaches
    /\ Compiled =>
        \A note \in Notes("assign") :
            /\ note.n # <<>>
            /\ IF note.n[1] = 0
               THEN /\ comp.res = "Immutable"
                    /\ TokenText(comp.tok[1], src) = note.text
                    /\ note.ins = NoIns
                    /\ comp.code # <<>> => comp.code[Len(comp.code)].op # ISTORE
               ELSE /\ note.ins = I1(ISTORE, note.n[2])
                    /\ \E k \in DOMAIN comp.code : comp.code[k] = note.ins
                    /\ comp.res # "Immutable"

\* fn f() { } fn main() { f = 1 } was compiled: f resolves in the global scope.
C16_Witness ==
    /\ Compiled
    /\ src = Chars(<<"fn", " ", "f", "(", ")", " ", "{", " ", "}", " ">>)
               \o Main(<<"f", " ", "=", " ", "1">>)
    /\ comp.res = "Immutable"
    /\ \E note \in Notes("assign") : note.text = <<"f">> /\ note.n[1] = 0

\* The text declares a function named main.
DeclaresMain(text) ==
    \E i \in 1..Len(text) :
        /\ i + 7 <= Len(text)
        /\ SubSeq(text, i, i + 7) = Chars(<<"fn", " ", "main", "(">>)

\* The texts made only of well-formed function declarations: every name they use is
\* declared, none is declared twice in a scope, none assigns to a function.
FunctionSources ==
    { AddSource, StoreSource, IndexSource, BlockSource,
      Main(<<>>),
      Main(<<"let", " ", "a", " ", "=", " ", "1">>),
      Chars(<<"fn", " ", "f", "(", ")", " ", "{", " ", "return", " ", "nil", " ", "}", " ">>)
      \o Main(<<"f", "(", ")", " ", "return", " ", "false">>),
      Chars(<<"fn", " ", "f", "(", "a", ")", " ", "{", " ", "}", " ",
              "fn", " ", "h", "(", "a", ")", " ", "{", " ", "}", " ">>) \o Main(<<>>),
      Chars(<<"fn", " ", "f", "(", ")", " ", "{", " ", "return", " ", "1", " ", "}">>),
      Chars(<<"fn", " ", "f", "(", "a", ")", " ", "{", " ", "return", " ", "a", " ", "}">>) }

\* C17: for a source made only of well-formed function declarations, compile
\* returns Ok if and only if one of the functions is named main, and
\* NoMainFunction otherwise.
C17_MainRequired ==
    (Compiled /\ src \in FunctionSources) =>
        IF DeclaresMain(src) THEN comp.res = "Ok" ELSE comp.res = "NoMainFunction"

C19_Empty ==
    (Compiled /\ src = <<>>) =>
        /\ comp.res = "Ok"
        /\ comp.code = <<>>
        /\ vm.bin = <<>>

\* ------------------------------------------------------ expressions

\* The precedence level of a binary operator, and the opcode named after it.
Level(op) ==
    IF op \in {"*", "/", "%"} THEN 3 ELSE IF op \in {"+", "-"} THEN 2 ELSE 1
OperatorCode(op) ==
    CASE op = "+" -> IADD [] op = "-" -> ISUB [] op = "*" -> IMULT [] op = "/" -> IDIV
      [] op = "%" -> IMOD [] op = "==" -> IEQ

\* The expression in postfix order: operands and operators by name.
Postfix(form, o1, o2) ==
    IF form = "group" THEN <<"b", "1", o1>>
    ELSE IF form = "left" \/ (form = "flat" /\ Level(o1) >= Level(o2))
    THEN <<"b", "1", o1, "5", o2>>
    ELSE <<"b", "1", "5", o2, o1>>

\* The instruction is the one of the item: load of slot 0 for b, a konst of the
\* number for 1 and 5, the opcode for an operator.
Emits(ins, item) ==
    IF item = "b" THEN ins = I1(ILOAD, 0)
    ELSE IF item \in {"1", "5"}
    THEN /\ ins.op = IKONST
         /\ WordToNat(ins.arg) < Len(vm.constants)
         /\ vm.constants[WordToNat(ins.arg) + 1] = (IF item = "1" THEN Num(1) ELSE Num(5))
    ELSE ins = I0(OperatorCode(item))

\* C20: an expression of operands and binary operators is emitted in postfix order
\* (left operand, right operand, operator), * / % binding tighter than + -, these
\* tighter than the comparisons, left to right within a level; parentheses change
\* the grouping and emit nothing.  So b + 1 * 5 is load b, konst, konst, mult, add,
\* and with b = 1 it yields 6.
C20_Postfix ==
    /\ \A form \in ExprForms, o1 \in ExprOperators, o2 \in ExprOperators :
         (Compiled /\ src = ExprSource(form, o1, o2)) =>
             LET p == Postfix(form, o1, o2)
             IN  /\ comp.res = "Ok"
                 /\ Len(comp.code) = Len(p) + 3
                 /\ comp.code[1].op = IKONST
                 /\ \A k \in 1..Len(p) : Emits(comp.code[k + 1], p[k])
                 /\ comp.code[Len(p) + 2] = I0(IRET)
                 /\ comp.code[Len(p) + 3] = I1(IPOP, 1)
    /\ (src = ExprSource("flat", "+", "*") /\ MainReturned) =>
         /\ vm.error = "None"
         /\ vm.stack # <<>>
         /\ vm.stack[Len(vm.stack)] = Num(6)

\* b + 1 * 5 was compiled and run, and main returned.
C20_Witness ==
    /\ src = ExprSource("flat", "+", "*")
    /\ MainReturned
    /\ comp.code[5] = I0(IMULT)
    /\ comp.code[6] = I0(IADD)

\* ------------------------------------------------------------------- reset

\* C21: BVM::reset leaves exactly the state impl Default constructs (empty stack,
\* bytecode and constant pool, error None, entry 0, the one frame ip = 0, bp = 0),
\* whatever state it is applied to, and applying it again changes nothing; the
\* host's reset step leaves that state.
C21_Reset ==
    [][/\ reset(vm) = BVM_default
       /\ reset(reset(vm)) = reset(vm)
       /\ (prog # "none" /\ prog' = "none") =>
            /\ vm'.stack = <<>> /\ vm'.bin = <<>> /\ vm'.constants = <<>>
            /\ vm'.error = "None" /\ vm'.entry = 0
            /\ vm'.frames = <<Frame(0, 0)>>
            /\ vm' = BVM_default]_vars

\* The host may reset a VM with a pending error, frames left by the faulted
\* calls, values on the stack, bytecode and constants.
C21_Witness ==
    /\ HostIdle /\ prog # "none"
    /\ vm.error # "None"
    /\ Len(vm.frames) > 1
    /\ vm.stack # <<>> /\ vm.bin # <<>> /\ vm.constants # <<>> /\ vm.heap # <<>>
    /\ reset(vm) = BVM_default

\* ------------------------------------------------------- emitted operands

\* The konst instructions among the emitted ones, by their position.
Konsts == {i \in 1..Len(comp.code) : comp.code[i].op = IKONST}

\* C22: after a text compiled without error, every emitted konst(k) has k below
\* the size of the constant pool.
C22_KonstInPool ==
    (Compiled /\ comp.res = "Ok") =>
        \A i \in Konsts : WordToNat(comp.code[i].arg) < Len(vm.constants)

\* The emitted load and store instructions, each with the compiler's offset when
\* Compiler::emit wrote it.
SlotNotes == {n \in Notes("emit") : n.ins.op \in {ILOAD, ISTORE}}

\* C23: whenever the compiler emits load(slot) or store(slot), slot is below the
\* compiler's offset of that moment.
C23_SlotBelowOffset ==
    Compiled => \A n \in SlotNotes : WordToNat(n.ins.arg) < n.n

\* A text compiled that emitted a load and a store of the newest slot, and a
\* load of an older one.
C23_Witness ==
    /\ Compiled /\ comp.res = "Ok"
    /\ \E n \in SlotNotes : n.ins.op = ILOAD /\ WordToNat(n.ins.arg) = n.n - 1
    /\ \E n \in SlotNotes : n.ins.op = ISTORE /\ WordToNat(n.ins.arg) = n.n - 1
    /\ \E n \in SlotNotes : n.ins.op = ILOAD /\ WordToNat(n.ins.arg) < n.n - 1
    /\ \E n \in SlotNotes : n.ins.op = ISTORE /\ WordToNat(n.ins.arg) < n.n - 1

\* ------------------------------------------------------------------ scopes

\* The number of names the scope a close_scope closed had declared.
ClosedSize(n) == Len(n.scopes[Len(n.scopes)])

\* C24: closing a scope that declared k names emits one pop(k) when k > 0 and
\* nothing when k = 0, lowers offset by k, and removes that scope, the last, from
\* the scopes.
C24_CloseScope ==
    Compiled =>
        \A n \in Notes("close") :
            LET k == ClosedSize(n.n)
            IN  /\ n.n.after.code = IF k > 0 THEN <<I1(IPOP, k)>> ELSE <<>>
                /\ n.n.after.offset = n.n.offset - k
                /\ n.n.after.scopes = SubSeq(n.n.scopes, 1, Len(n.n.scopes) - 1)

\* A text compiled that closed a scope without names, inside one with two (below
\* them the scope function_body opens and the first scope).
C24_Witness ==
    /\ Compiled /\ comp.res = "Ok"
    /\ \E n \in Notes("close") : ClosedSize(n.n) = 0 /\ n.n.offset = 2
                                  /\ Len(n.n.scopes) = 4
    /\ \E n \in Notes("close") : ClosedSize(n.n) = 2 /\ n.n.after.offset = 0

\* ------------------------------------------------------------- the scanner

\* The characters an identifier starts with and goes on with: [A-Za-z_] and
\* [A-Za-z0-9_].
IdentifierStart == Alphabetic \cup {"_"}
IdentifierChar == Alphabetic \cup Digit \cup {"_"}

\* Where the maximal run of identifier characters that holds position p (from 0)
\* ends: the position after its last character.
RECURSIVE RunEnd(_, _)
RunEnd(text, p) ==
    IF p < Len(text) /\ text[p + 1] \in IdentifierChar THEN RunEnd(text, p + 1) ELSE p

\* The positions at which a scan of its text from the scanner s on calls
\* Scanner::read, up to the end of the text or a read that does not return.
RECURSIVE ReadPoints(_)
ReadPoints(s) ==
    LET r == Scanner_read(s)
    IN  IF r.hang \/ r.token.kind = Kind("EOF") THEN {s.ptr}
        ELSE {s.ptr} \cup ReadPoints(Scanner_sync(r.s))

\* The kind of the keywords, by their text.
KeywordKinds ==
    [w \in {"if", "while", "else", "fn", "false", "true", "nil", "return", "let"} |->
        CASE w = "if" -> "If" [] w = "while" -> "While" [] w = "else" -> "Else"
          [] w = "fn" -> "Fn" [] w = "false" -> "False" [] w = "true" -> "True"
          [] w = "nil" -> "Nil" [] w = "return" -> "Return" [] w = "let" -> "Let"]

\* C25: wherever the scan of a text reads at the start of a run of identifier
\* characters, read returns one token that spans the whole run, of the kind
\* Identifier or, for the text of a keyword, of that keyword's kind.
C25_Identifiers ==
    \A p \in ReadPoints(Scanner_new(src)) :
        (p < Len(src) /\ src[p + 1] \in IdentifierStart) =>
            LET r == Scanner_read([Scanner_new(src) EXCEPT !.ptr = p, !.old_ptr = p])
                run == SubSeq(src, p + 1, RunEnd(src, p))
            IN  /\ ~r.hang
                /\ r.token.from = p
                /\ r.token.len = Len(run)
                /\ r.s.ptr = RunEnd(src, p)
                /\ r.token.kind =
                       IF \E w \in DOMAIN KeywordKinds : Spell[w] = run
                       THEN Kind(KeywordKinds[CHOOSE w \in DOMAIN KeywordKinds :
                                                   Spell[w] = run])
                       ELSE Kind("Identifier")

\* ------------------------------------------------------------------ arrays

\* The last instruction was an anew whose count of values was on the stack.
LastBuiltArray ==
    /\ last.op = IANEW
    /\ LastArgc <= Len(PreStack)
    /\ last.pre.halt = "none"

\* C26: anew(c) removes the c topmost values and pushes one array that no value
\* referred to before, of length c, whose element j is the j-th of those values
\* from the bottom (the order they were pushed in); the stack below and the other
\* arrays are as before.  anew(0) pushes an empty array.
C26_Anew ==
    LastBuiltArray =>
        LET c == LastArgc
            top == vm.stack[Len(vm.stack)]
        IN  /\ vm.halt = "none" /\ vm.error = "None"
            /\ Len(vm.stack) = Len(PreStack) - c + 1
            /\ SubSeq(vm.stack, 1, Len(vm.stack) - 1) = PreBelow(c)
            /\ top.t = "Array"
            /\ top.ref \notin DOMAIN last.pre.heap
            /\ top.ref \in DOMAIN vm.heap
            /\ Len(vm.heap[top.ref]) = c
            /\ \A j \in 1..c : vm.heap[top.ref][j] = PreStack[Len(PreStack) - c + j]
            /\ \A r \in DOMAIN last.pre.heap : vm.heap[r] = last.pre.heap[r]

\* An anew(2) of two different values, above other values.
C26_Witness ==
    /\ LastBuiltArray
    /\ LastArgc = 2
    /\ PreTop(0) # PreTop(1)
    /\ PreBelow(2) # <<>>

\* ------------------------------------------------------------------- calls

\* The last instruction was a call (by the host or by a call instruction) whose
\* callee slot, position sp - 1 - argc, held a value that is not a function.
LastCalledNonFunction ==
    /\ last.op = ICALL
    /\ last.pre.halt = "none"
    /\ Len(PreStack) >= 1 + LastArgc
    /\ PreTop(LastArgc).t # "Function"

\* C27: a call whose callee slot holds no function sets the error slot to
\* CallingNonFunction and pushes no frame (the frames below the current one are
\* untouched and the current one keeps its bp); no callee code runs: no process is
\* entered and the next turn of every running process finds the error.
C27_CallingNonFunction ==
    [][(last' # last /\ last'.op = ICALL /\ last'.pre = vm /\ vm.halt = "none"
        /\ sp(vm) >= 1 + WordToNat(last'.arg)
        /\ vm.stack[sp(vm) - WordToNat(last'.arg)].t # "Function") =>
           /\ vm'.error = "CallingNonFunction"
           /\ vm'.halt = "none"
           /\ Len(vm'.frames) = Len(vm.frames)
           /\ \A i \in 1..Len(vm.frames) :
                  /\ vm'.frames[i].bp = vm.frames[i].bp
                  /\ i < Len(vm.frames) => vm'.frames[i] = vm.frames[i]
           /\ procs' = procs
           /\ ~Running']_vars

\* Such a call has happened: a call instruction of a running function found a
\* number in the callee slot, below one argument.
C27_Witness ==
    /\ LastCalledNonFunction
    /\ LastArgc = 1
    /\ procs # <<>>
    /\ vm.error = "CallingNonFunction"

\* ----------------------------------------------------------- read-only data

\* The last call ran a native function.
LastCalledNative ==
    /\ last.op = ICALL
    /\ last.pre.halt = "none"
    /\ Len(PreStack) >= 1 + LastArgc
    /\ PreTop(LastArgc).t = "Function"
    /\ PreTop(LastArgc).k = "Native"

\* C28: no step of execution (a call by the host, a turn of process for any
\* instruction, with or without a fault, a native function, the return of a
\* process) changes the bytecode or the constant pool; only loading, compiling
\* and reset do.
C28_ReadOnly ==
    [][prog' = prog => (vm'.bin = vm.bin /\ vm'.constants = vm.constants)]_vars

\* A native function has run on a loaded program and changed the stack and an
\* array.
C28_Witness ==
    /\ LastCalledNative
    /\ vm.bin # <<>> /\ vm.constants # <<>>
    /\ vm.stack # last.pre.stack
    /\ vm.heap # last.pre.heap
    /\ vm.bin = last.pre.bin /\ vm.constants = last.pre.constants

\* ------------------------------------------------------------- operand bytes

\* The smallest of the widths 1, 2, 4, 8 whose bytes hold the operand, and the
\* size tag of a width.
SmallestWidth(w) ==
    IF \A i \in 2..8 : w[i] = 0 THEN 1
    ELSE IF \A i \in 3..8 : w[i] = 0 THEN 2
    ELSE IF \A i \in 5..8 : w[i] = 0 THEN 4
    ELSE 8
WidthTag(n) == CASE n = 1 -> 0 [] n = 2 -> 1 [] n = 4 -> 2 [] n = 8 -> 3

\* C29: the bytes of an emitted instruction with an operand are the opcode byte,
\* whose two high bits are the tag of the smallest width that holds the operand,
\* and then the operand in that many bytes, the most significant byte first.
C29_Encoding ==
    \A k \in DOMAIN emitted :
        LET e == emitted[k]
            n == SmallestWidth(e.ins.arg)
        IN  e.ins.arg # NoOperand =>
                /\ Len(vm.bin) >= e.at + 1 + n
                /\ k < Len(emitted) => emitted[k + 1].at = e.at + 1 + n
                /\ vm.bin[e.at + 1] \div 64 = WidthTag(n)
                /\ vm.bin[e.at + 1] % 64 = e.ins.op % 64
                /\ \A j \in 1..n : vm.bin[e.at + 1 + j] = e.ins.arg[n - j + 1]

\* ------------------------------------------------------------ opcode masking

\* The size tag of the opcode byte of the k-th emitted instruction.
TagOf(k) == vm.bin[emitted[k].at + 1] \div 64

\* C30: for an instruction with an operand, whatever the size tag of its opcode
\* byte, fetch returns the low six bits of that byte, both tag bits cleared: the
\* opcode process dispatches on equals the instruction's.
C30_OpcodeMasked ==
    \A k \in DOMAIN fetched :
        LET e == emitted[k]
            f == fetched[k]
        IN  (e.ins.arg # NoOperand /\ f.from = e.at /\ f.halt = "none") =>
                /\ f.op = vm.bin[e.at + 1] % 64
                /\ f.op <= 63
                /\ f.op = e.ins.op
                /\ f.op \in KnownOps

\* ------------------------------------------------------ the opcode tables

\* bin.rs: the variants of its enum Instruction and, by variant, what its
\* encode_params returns: <<opcode, Encoding>> ("Fixed2" is Encoding::Fixed(2)).
BinVariants ==
    {"Nop", "Add", "Sub", "Mult", "Div", "Eq", "Ne", "Ge", "Le", "Gt", "Lt", "Set",
     "Get", "Pop", "Ret", "Load", "Store", "Call", "Konst", "Nil", "True", "False",
     "Anew", "Mod", "Jmp", "Cjmp"}
bin_encode_params ==
    [v \in BinVariants |->
        CASE v = "Nop" -> <<0, "None">> [] v = "Add" -> <<1, "None">>
          [] v = "Sub" -> <<2, "None">> [] v = "Mult" -> <<3, "None">>
          [] v = "Div" -> <<4, "None">> [] v = "Eq" -> <<5, "None">>
          [] v = "Ne" -> <<6, "None">> [] v = "Ge" -> <<7, "None">>
          [] v = "Le" -> <<8, "None">> [] v = "Gt" -> <<9, "None">>
          [] v = "Lt" -> <<10, "None">> [] v = "Set" -> <<11, "None">>
          [] v = "Get" -> <<12, "None">> [] v = "Pop" -> <<45, "Variadic">>
          [] v = "Ret" -> <<14, "None">> [] v = "Load" -> <<47, "Variadic">>
          [] v = "Store" -> <<48, "Variadic">> [] v = "Call" -> <<49, "Variadic">>
          [] v = "Konst" -> <<50, "Variadic">> [] v = "Nil" -> <<19, "None">>
          [] v = "True" -> <<20, "None">> [] v = "False" -> <<21, "None">>
          [] v = "Anew" -> <<54, "Variadic">> [] v = "Mod" -> <<23, "None">>
          [] v = "Jmp" -> <<56, "Fixed2">> [] v = "Cjmp" -> <<57, "Fixed2">>]

\* assemble.rs: encode_with_size and encode, on a variant and its operand.
encode_with_size(opcode, operand, size) ==
    <<Or8(opcode, WidthTag(size) * 64)>> \o OperandBytes(operand, size)
assemble_encode(v, operand) ==
    LET p == bin_encode_params[v]
    IN  CASE p[2] = "Fixed2" -> encode_with_size(p[1], operand, 2)
          [] p[2] = "Variadic" ->
               IF WordGtU32(operand) THEN encode_with_size(p[1], operand, 8)
               ELSE IF WordGtU16(operand) THEN encode_with_size(p[1], operand, 4)
               ELSE IF WordGtU8(operand) THEN encode_with_size(p[1], operand, 2)
               ELSE encode_with_size(p[1], operand, 1)
          [] p[2] = "None" -> <<p[1]>>

\* Bit 5 of an opcode, the has-operand bit.
HasOperand(op) == (op \div 32) % 2 = 1

\* C31: an instruction without operand is emitted as one byte, its opcode, which
\* is at most 63 and has bit 5 clear, and fetch consumes that one byte; an opcode
\* with an operand is at most 63 and has bit 5 set.  So it is for the opcodes of
\* vm.rs, as emitted by Compiler::encode, and for those of bin.rs, as encoded by
\* assemble::encode.
C31_OpcodeTables ==
    /\ \A k \in DOMAIN emitted :
          LET e == emitted[k]
          IN  /\ e.ins.op <= 63
              /\ HasOperand(e.ins.op) <=> e.ins.arg # NoOperand
              /\ e.ins.arg = NoOperand =>
                    /\ vm.bin[e.at + 1] = e.ins.op
                    /\ IF k < Len(emitted) THEN emitted[k + 1].at = e.at + 1
                       ELSE Len(vm.bin) = e.at + 1
                    /\ k \in DOMAIN fetched =>
                          /\ fetched[k].from = e.at
                          /\ fetched[k].to = e.at + 1
                          /\ fetched[k].op = e.ins.op
    /\ \A op \in PlainOps : op <= 63 /\ ~HasOperand(op)
    /\ \A op \in OperandOps : op <= 63 /\ HasOperand(op)
    /\ \A v \in BinVariants :
          LET p == bin_encode_params[v]
          IN  /\ p[1] <= 63
              /\ HasOperand(p[1]) <=> p[2] # "None"
              /\ p[2] = "None" => \A o \in EdgeOperands : assemble_encode(v, o) = <<p[1]>>
              /\ p[2] # "None" =>
                    \A o \in EdgeOperands : /\ Len(assemble_encode(v, o)) > 1
                                             /\ HasOperand(assemble_encode(v, o)[1])

\* An instruction without operand was emitted after one with an eight-byte
\* operand, and both were fetched.
C31_Witness ==
    /\ Len(fetched) = 2
    /\ emitted[1].ins.arg = Pow2_32
    /\ emitted[2].ins = I0(IRET)
    /\ fetched[2].to = Len(vm.bin)

\* ---------------------------------------------------- offset and functions

\* C32: every function declaration is entered with offset 0, and a function that
\* compiled leaves offset as it found it.
C32_OffsetPerFunction ==
    Compiled =>
        \A n \in Notes("function") :
            /\ n.n.before = 0
            /\ n.n.ok => n.n.after = n.n.before

\* ------------------------------------------- the assign and call statement

\* C33: an `=` is accepted only after a bare identifier, where a store is emitted,
\* or after an index suffix, where set is emitted; after an initial r-value or a
\* call it is UnexpectedToken.  A statement that ends without `=` is accepted only
\* after a call, where pop(1) is emitted; in any other state it is
\* UnexpectedToken.
C33_AssignCallStates ==
    Compiled => \A n \in Notes("end") :
        IF n.text = <<"=">>
        THEN /\ n.n.state \in {"InitialRvalue", "Call"} =>
                    n.n.res = "UnexpectedToken" /\ n.n.emitted = 0
             /\ n.n.state = "Identifier" /\ n.n.res = "Ok" => n.ins.op = ISTORE
             /\ n.n.state = "Index" /\ n.n.res = "Ok" => n.ins = I0(ISET)
        ELSE IF n.n.state = "Call"
             THEN n.n.res = "Ok" /\ n.n.emitted = 1 /\ n.ins = I1(IPOP, 1)
             ELSE n.n.res = "UnexpectedToken" /\ n.n.emitted = 0

\* A call was flushed and the `=` that followed it was refused.
C33_Witness ==
    /\ prog = "failed"
    /\ comp.res = "UnexpectedToken"
    /\ \E n \in Notes("end") : n.text = <<"=">> /\ n.n.state = "Call"
    /\ comp.code[Len(comp.code)].op = ICALL

\* C34: each suffix of an assign or call chain first flushes the prefix before it: a
\* bare identifier emits its load (konst for a global), an index emits get, a call
\* or an initial r-value emits nothing.  So a[0][1] = 2 is load a, 0, get, 1, 2,
\* set, and a[0](1) is load a, 0, get, 1, call 1.
C34_FlushLvalue ==
    Compiled =>
        /\ \A n \in Notes("flush") :
               CASE n.n.state = "Identifier" ->
                        n.n.res = "Ok" =>
                            /\ n.n.emitted = 1
                            /\ n.ins = IF n.n.binding[1] = 0
                                       THEN I1(IKONST, n.n.binding[2])
                                       ELSE I1(ILOAD, n.n.binding[2])
                 [] n.n.state = "Index" -> n.n.emitted = 1 /\ n.ins = I0(IGET)
                 [] OTHER -> n.n.emitted = 0 /\ n.n.res = "Ok"
        /\ src = ChainSetSource =>
               /\ comp.res = "Ok"
               /\ comp.code = <<I0(INIL), I1(ILOAD, 0), I1(IKONST, 1), I0(IGET),
                                I1(IKONST, 2), I1(IKONST, 3), I0(ISET), I1(IPOP, 1)>>
        /\ src = ChainCallSource =>
               /\ comp.res = "Ok"
               /\ comp.code = <<I0(INIL), I1(ILOAD, 0), I1(IKONST, 1), I0(IGET),
                                I1(IKONST, 2), I1(ICALL, 1), I1(IPOP, 1), I1(IPOP, 1)>>

\* a[0][1] = 2 was compiled: the identifier was flushed at the first bracket and
\* the index at the second.
C34_Witness ==
    /\ Compiled
    /\ src = ChainSetSource
    /\ \E n \in Notes("flush") : n.n.state = "Identifier" /\ n.ins = I1(ILOAD, 0)
    /\ \E n \in Notes("flush") : n.n.state = "Index" /\ n.ins = I0(IGET)

\* ------------------------------------------------------------ native calls

\* The BVM the native of a call is handed: the one the call found (after the fetch
\* of the call instruction, or as the host left it), without the callee and with
\* the arguments made as many as the native declares.
NativeEntered(found, argc) ==
    LET base == sp(found) - 1 - argc
        p == found.stack[base + 1].param_count
    IN  [found EXCEPT !.stack = SubSeq(found.stack, 1, base)
                                \o [i \in 1..p |-> IF i <= argc THEN found.stack[base + 1 + i]
                                                   ELSE Nil]]

\* What C35 says of a call of a native that found the BVM `found` and left `left`.
NativeLeft(found, argc, left) ==
    LET base == sp(found) - 1 - argc
        callee == found.stack[base + 1]
        entered == NativeEntered(found, argc)
    IN  /\ left = CallNative(entered, callee.func)
        /\ left.halt = "none"
        /\ left.frames = found.frames
        /\ left.bin = found.bin /\ left.constants = found.constants
        /\ SubSeq(left.stack, 1, base) = SubSeq(found.stack, 1, base)
        /\ callee.func = "bakht_print" =>
               left.stack = SubSeq(found.stack, 1, base) \o <<Nil>>
        /\ callee.func = "bakht_len" /\ left.error = "None" =>
               /\ sp(left) = base + 1
               /\ entered.stack[base + 1].t \in {"Array", "String"}

\* C35: call(argc) on a native of p parameters hands it exactly p arguments on top
\* of the stack, the first p of the argc given or all of them and Nil for the
\* missing ones, and the VM goes on in the state the native left: the stack as
\* the native left it, frames, bytecode, constants and the ip of the caller as
\* they were.
C35_NativeCall ==
    [][(last' # last /\ last'.op = ICALL /\ last'.pre = vm /\ vm.halt = "none"
        /\ sp(vm) >= 1 + WordToNat(last'.arg)
        /\ vm.stack[sp(vm) - WordToNat(last'.arg)].t = "Function"
        /\ vm.stack[sp(vm) - WordToNat(last'.arg)].k = "Native")
       => NativeLeft(IF procs = <<>> THEN vm ELSE fetch(vm)[1], WordToNat(last'.arg), vm')]_vars

\* A native of one parameter was called with another number of arguments and
\* left its one result on the values below the callee.
C35_Witness ==
    /\ LastCalledNative
    /\ LastArgc # PreTop(LastArgc).param_count
    /\ PreTop(LastArgc).param_count = 1
    /\ vm.error = "None"
    /\ sp(vm) = Len(PreStack) - 1 - LastArgc + 1

\* ------------------------------------------------------------ if statements

\* C36: an if statement in a function body compiles, to the code of the
\* condition, a cjmp with an operand of two bytes that is the distance to the
\* instruction after the block, and the code of the block.
C36_IfStatement ==
    Compiled /\ src = IfSource =>
        /\ comp.res = "Ok"
        /\ \E i \in DOMAIN comp.code :
               /\ comp.code[i].op = bin_encode_params["Cjmp"][1]
               /\ i > 1 /\ comp.code[i - 1] = I0(ITRUE)

\* ------------------------------------------------------- the scanner's end

\* The scanners on which a scan of the text calls Scanner::next, from s on, up to
\* the call that returns EOF or does not return.
RECURSIVE NextPoints(_)
NextPoints(s) ==
    LET r == Scanner_next(s)
    IN  IF r.hang \/ r.token.kind = Kind("EOF") THEN {s} ELSE {s} \cup NextPoints(r.s)

\* C37: every call of Scanner::next returns a token; ptr is at most the length of
\* the text and old_ptr at most ptr; the token lies inside the text; and after the
\* end of the text next returns EOF again and again.
C37_ScannerNext ==
    \A s \in NextPoints(Scanner_new(src)) :
        LET r == Scanner_next(s)
        IN  /\ ~r.hang
            /\ r.s.ptr <= Len(src)
            /\ r.s.old_ptr <= r.s.ptr
            /\ r.token.from + r.token.len <= Len(src)
            /\ r.token.kind = Kind("EOF") =>
                   /\ Scanner_next(r.s).token = r.token
                   /\ Scanner_next(r.s).s = r.s

\* ---------------------------------------------------------- the frame stack

\* C38: the frame stack is never empty and the frame ip = 0, bp = 0 stays at its
\* bottom; a ret pops exactly the frame on top, the one its call pushed; while no
\* fault is pending there is one frame for each running process above that
\* bottom frame, so a call by the host that completed without a fault leaves the
\* depth it found.
C38_Frames ==
    vm.halt = "none" =>
        /\ vm.frames # <<>>
        /\ vm.frames[1] = Frame(0, 0)
        /\ last.op = IRET =>
               vm.frames = SubSeq(last.pre.frames, 1, Len(last.pre.frames) - 1)
        /\ vm.error = "None" => Len(vm.frames) = Len(procs) + 1
        /\ HostIdle /\ vm.error = "None" => vm.frames = <<Frame(0, 0)>>

\* A call by the host of a function of the program of calls has come back through
\* a ret without a fault: the ret found two frames and left the bottom one.
C38_Witness ==
    /\ HostIdle
    /\ calls # <<>>
    /\ last.op = IRET
    /\ vm.error = "None"
    /\ Len(last.pre.frames) = 2
    /\ vm.frames = <<Frame(0, 0)>>
    /\ prog = "call"

\* ------------------------------------------------- the end of a function

\* C39: while a compiled program runs, every fetch reads inside the bytecode, and
\* inside the bytecode of the function whose frame is current: a turn of process
\* that is neither a call of a function nor a ret goes from one instruction of a
\* function to another instruction of the same function, so no body runs on into
\* the next function or past the end.
C39_FetchInside ==
    [][(prog = "source" /\ Running) =>
          /\ ip(vm) < Len(vm.bin)
          /\ (vm'.halt = "none" /\ vm' # vm /\ Len(vm'.frames) = Len(vm.frames)) =>
                 \E n \in Notes("function") :
                     /\ n.n.start <= ip(vm)
                     /\ ip(vm) < ip(vm')
                     /\ ip(vm') < n.n.end]_vars

\* ------------------------------------------------- the stack at a statement

\* C40: when a function frame of a compiled program has executed a statement that
\* is no return, without a fault, the values above its bp are as many as the
\* compiler's offset after that statement.
C40_StackBalance ==
    (/\ prog = "source"
     /\ procs # <<>>
     /\ vm.halt = "none" /\ vm.error = "None"
     /\ ~(last.op = ICALL /\ Len(vm.frames) > Len(last.pre.frames)))
    => \A n \in Notes("stmt") : n.n.at = ip(vm) => sp(vm) - bp(vm) = n.n.offset
====
